---- MODULE Spec2Model ----
(***************************************************************************)
(* State-machine model of the trading bot's portfolio simulation loops,    *)
(* its risk manager and its parameter search.                              *)
(*                                                                         *)
(* Money is modelled in whole dollars and quantities in whole units        *)
(* (Python floats in the source; divisions are floored here).  Percentages *)
(* are integers per hundred, so that `price <= entry * (1 - 0.05)` becomes *)
(* `price * 100 <= entry * (100 - 5)` without any rounding.                *)
(***************************************************************************)
EXTENDS Integers, Sequences, FiniteSets, TLC

VARIABLES
    \* ---- SingleParameterTester / PropFirmBot instance attributes
    winning_streak, losing_streak, current_leverage,
    cfg,              \* leverage configuration of the instance
    pnl_log,          \* arguments of the _update_streaks_and_leverage calls so far
    \* ---- locals of SingleParameterTester._run_single_backtest
    all_data,         \* symbol -> sequence of closes over the timeline (0: no bar)
    pc,               \* position of the running program
    date,             \* index into the timeline
    current_price,    \* the loop variable current_price (survives its loop)
    portfolio_value, positions, trades, equity_curve,
    final_balance, leverage_risk_factor,
    run,              \* number of the run on this instance
    prev_trades, prev_equity,  \* what the previous run on this instance produced
    opened,           \* symbol -> number of positions opened in this run
    settings,         \* the process-wide settings object (config.settings)
    \* ---- the process-wide RiskManager (risk_manager.risk_manager)
    portfolio,            \* risk_manager.portfolio
    trade_history,        \* risk_manager.trade_history; the engine's list holds
                          \* the same trade dicts in the same order
    performance_history,  \* risk_manager.performance_history
    buffer_data,          \* symbol -> the closes fetched for the days before
                          \* start_date (_fetch_historical_data, lines 128-130)
    \* ---- RiskManager.calculate_stop_loss_take_profit taken alone
    levels_in,        \* the arguments and the configured percentages
    levels_out,       \* the pair returned
    \* ---- ParameterOptimizer.grid_search
    parameter_ranges, \* the argument: ordered pairs of a name and a value list
    max_workers,      \* the argument
    batch_i,          \* the loop variable i: offset of the current batch
    tasks,            \* the parameter dicts of the current batch
    batch_results,    \* what each task of the batch has returned so far
    results,          \* the local list results
    outcomes,         \* how the run of each combination ended, in run order
    touched,          \* per task of the batch: the shared objects it wrote
    \* ---- ParameterOptimizer.walk_forward_optimization
    wf_in,            \* the arguments start_date, end_date, window_size, step_size
    windows,          \* the local list windows
    window_i,         \* the loop variable i, counted from 1 (0: no walk)
    wf_results,       \* the local list results of walk_forward_optimization
    test_runs,        \* the out-of-sample runs so far: period, parameters, end
    \* ---- the performance evaluators taken alone
    metrics_in,       \* the arguments: equity curve, trade list, capital
    metrics_out,      \* the metrics returned
    \* ---- ParameterOptimizer.genetic_optimization
    ga_in,            \* the arguments population_size, generations, mutation_rate
    heap,             \* the parameter dicts created so far, by identity
    population,       \* the local list population: identities of dicts
    generation,       \* the generations completed
    best_results,     \* the local list best_results
    ga_out,           \* the list returned
    eval_table,       \* how a run with given parameter values ends
    \* ---- MeanReversionStrategy.generate_signal taken alone
    confirm_in,       \* the z_score column of data and the strategy settings
    confirm_out,      \* the type of the signal returned ("NONE": None)
    \* ---- DataManager.fetch_historical_data
    cache,            \* data_manager._cache: cache key -> frame
    last_update,      \* data_manager._last_update: cache key -> time stored
    now,              \* datetime.now(), in seconds
    fetches,          \* calls of fetch_historical_data so far
    dm_out            \* the last call: its arguments and the frame returned

streak_vars == <<winning_streak, losing_streak, current_leverage, cfg, pnl_log>>
tester_vars == <<all_data, pc, date, current_price, portfolio_value,
                 positions, trades, equity_curve, final_balance,
                 leverage_risk_factor, run, prev_trades, prev_equity>>
\* the locals of the tester's loop that no other component has
tester_locals == <<current_price, portfolio_value, positions, trades,
                   final_balance, leverage_risk_factor, run, prev_trades,
                   prev_equity>>
engine_vars == <<portfolio, trade_history, performance_history>>
levels_vars == <<levels_in, levels_out>>
grid_vars == <<parameter_ranges, max_workers, batch_i, tasks, batch_results,
               results, outcomes, touched>>
walk_vars == <<wf_in, windows, window_i, wf_results, test_runs>>
metrics_vars == <<metrics_in, metrics_out>>
genetic_vars == <<ga_in, heap, population, generation, best_results, ga_out,
                  eval_table>>
confirm_vars == <<confirm_in, confirm_out>>
cache_vars == <<cache, last_update, now, fetches, dm_out>>
more_vars == <<walk_vars, metrics_vars, buffer_data, genetic_vars, confirm_vars,
               cache_vars>>
vars == <<streak_vars, tester_vars, opened, settings, engine_vars, levels_vars,
          grid_vars, more_vars>>

-----------------------------------------------------------------------------
(* Bounds of the model                                                     *)

MaxBars == 3          \* length of the combined timeline
MaxTrades == 5        \* closed trades fed to the streak rule in StreakSpec
MaxRuns == 2          \* runs on one tester instance

-----------------------------------------------------------------------------
(* Generic helpers                                                         *)

Min(a, b) == IF a <= b THEN a ELSE b
Max(a, b) == IF a >= b THEN a ELSE b

RECURSIVE SumSeq(_)
SumSeq(s) == IF s = <<>> THEN 0 ELSE Head(s) + SumSeq(Tail(s))

\* floor division that also works for a negative numerator (pnl_pct)
FloorDiv(a, b) == IF a >= 0 THEN a \div b ELSE -((-a + b - 1) \div b)

\* x * factor / 100 and x * 10000 / base rounded down, computed by quotient
\* and remainder so that no intermediate product leaves the 32-bit integers
PerHundred(x, factor) ==
    FloorDiv(x, 100) * factor
      + FloorDiv((x - FloorDiv(x, 100) * 100) * factor, 100)

PerTenThousand(x, base) ==
    FloorDiv(x, base) * 10000
      + FloorDiv((x - FloorDiv(x, base) * base) * 10000, base)

-----------------------------------------------------------------------------
(* Inputs: symbols, closes, settings                                       *)

\* all_data is a dict: iteration follows the order of the symbols list
SymOrder == <<"A", "B">>
Symbols == {SymOrder[i] : i \in 1..Len(SymOrder)}
NoBar == 0
Closes == {95, 100, 110}         \* closes of the first symbol
OtherCloses == {95, 110}         \* closes of the other symbols

\* The process-wide settings object (config.settings): the strategy and risk
\* fields the modelled code reads, with their defaults; percentages and
\* multipliers per hundred.  lookback_window is shortened to fit the timeline.
DefaultSettings ==
    [lookback_window |-> 2, threshold |-> 1, position_size_pct |-> 4,
     max_positions |-> 10, stop_loss_pct |-> 5, take_profit_pct |-> 10,
     max_drawdown_pct |-> 20, enable_dynamic_risk |-> TRUE,
     risk_multiplier |-> 100, min_risk_multiplier |-> 50,
     max_risk_multiplier |-> 200, performance_lookback |-> 30,
     sharpe_threshold |-> 100,
     max_portfolio_risk |-> 2, kelly_criterion |-> TRUE, kelly_fraction |-> 25,
     min_cash_reserve |-> 10, max_leverage |-> 100]

InitialBalance == 100000

\* SingleParameterTester.__init__: max_leverage, base_leverage, and the
\* thresholds written into _update_streaks_and_leverage and into the
\* extreme-value check of _run_single_backtest
SingleCfg == [kind |-> "single", base_leverage |-> 1, max_leverage |-> 5,
              enable_dynamic_leverage |-> TRUE,
              winning_streak_threshold |-> 3, losing_streak_threshold |-> 2,
              extreme_value_threshold |-> 1000,
              safety_balance_threshold |-> 100]

\* PropFirmConfig(...): the fields the simulation reads, the leverage fields
\* given by the caller and the others at their defaults (lookback_window
\* shortened to fit the timeline)
PropFirmConfig(base, max, enable, win_thr, lose_thr) ==
    [kind |-> "prop", base_leverage |-> base, max_leverage |-> max,
     enable_dynamic_leverage |-> enable,
     winning_streak_threshold |-> win_thr, losing_streak_threshold |-> lose_thr,
     lookback_window |-> 2, threshold |-> 1, position_size_pct |-> 2,
     stop_loss_pct |-> 5, take_profit_pct |-> 10, max_positions |-> 10,
     extreme_value_threshold |-> 10, safety_balance_threshold |-> 5]

\* PropFirmConfig values a caller can construct the bot with
PropCfgs == {PropFirmConfig(b, m, e, wt, lt) :
                b \in {1, 2}, m \in {3, 5}, e \in BOOLEAN,
                wt \in {2, 3}, lt \in {1, 2}}

\* the instances the simulation loop is run on: a SingleParameterTester and a
\* PropFirmBot built with PropFirmConfig()
TesterCfgs == {SingleCfg, PropFirmConfig(1, 5, TRUE, 3, 2)}

\* where the loop reads its strategy parameters: self.settings.strategy in
\* single_test.py, self.config in prop_firm_bot.py
LoopSettings(c, S) == IF c.kind = "single" THEN S ELSE c

-----------------------------------------------------------------------------
(* _update_streaks_and_leverage                                            *)

\* faulty variant: a win leaves the losing streak as it was
UpdateStreaksNoReset(c, w, l, lev, pnl) ==
    IF pnl > 0
    THEN [w |-> w + 1, l |-> l, lev |-> c.base_leverage]
    ELSE [w |-> 0, l |-> l + 1, lev |-> c.base_leverage]

\* faulty variant: leverage starts to rise one win late
UpdateStreaksLate(c, w, l, lev, pnl) ==
    IF pnl > 0
    THEN [w |-> w + 1, l |-> 0,
          lev |-> IF c.enable_dynamic_leverage /\ w + 1 > c.winning_streak_threshold
                  THEN Min(c.base_leverage + Min((w + 1) - c.winning_streak_threshold, 2),
                           c.max_leverage)
                  ELSE c.base_leverage]
    ELSE [w |-> 0, l |-> l + 1, lev |-> c.base_leverage]

\* faulty variant: one more step for every further win, without the limit of
\* two steps
UpdateStreaksUncapped(c, w, l, lev, pnl) ==
    IF pnl > 0
    THEN [w |-> w + 1, l |-> 0,
          lev |-> IF c.enable_dynamic_leverage
                     /\ w + 1 >= c.winning_streak_threshold
                  THEN Min(c.base_leverage
                             + (w + 1 - (c.winning_streak_threshold - 1)),
                           c.max_leverage)
                  ELSE c.base_leverage]
    ELSE [w |-> 0, l |-> l + 1,
          lev |-> IF c.enable_dynamic_leverage
                     /\ l + 1 >= c.losing_streak_threshold
                  THEN Max(c.base_leverage
                             - Min(l + 1 - (c.losing_streak_threshold - 1), 2),
                           1)
                  ELSE c.base_leverage]

\* faulty variant: a losing streak lowers the leverage without a floor
UpdateStreaksNoFloor(c, w, l, lev, pnl) ==
    IF pnl > 0
    THEN [w |-> w + 1, l |-> 0,
          lev |-> IF c.enable_dynamic_leverage
                     /\ w + 1 >= c.winning_streak_threshold
                  THEN Min(c.base_leverage
                             + Min(w + 1 - (c.winning_streak_threshold - 1), 2),
                           c.max_leverage)
                  ELSE c.base_leverage]
    ELSE [w |-> 0, l |-> l + 1,
          lev |-> IF c.enable_dynamic_leverage
                     /\ l + 1 >= c.losing_streak_threshold
                  THEN c.base_leverage
                         - Min(l + 1 - (c.losing_streak_threshold - 1), 2)
                  ELSE c.base_leverage]

\* PropFirmBot._update_streaks_and_leverage
PropUpdateStreaksAndLeverage(c, w, l, lev, pnl) ==
    IF pnl > 0
    THEN LET w2 == w + 1 IN
         [w |-> w2, l |-> 0,
          lev |-> IF c.enable_dynamic_leverage /\ w2 >= c.winning_streak_threshold
                  THEN Min(c.base_leverage
                             + Min(w2 - (c.winning_streak_threshold - 1), 2),
                           c.max_leverage)
                  ELSE c.base_leverage]
    ELSE LET l2 == l + 1 IN
         [w |-> 0, l |-> l2,
          lev |-> IF c.enable_dynamic_leverage /\ l2 >= c.losing_streak_threshold
                  THEN Max(c.base_leverage
                             - Min(l2 - (c.losing_streak_threshold - 1), 2), 1)
                  ELSE c.base_leverage]

\* SingleParameterTester._update_streaks_and_leverage
SingleUpdateStreaksAndLeverage(c, w, l, lev, pnl) ==
    IF pnl > 0
    THEN LET w2 == w + 1 IN
         [w |-> w2, l |-> 0,
          lev |-> IF w2 >= 3
                  THEN Min(c.base_leverage + Min(w2 - 2, 2), c.max_leverage)
                  ELSE c.base_leverage]
    ELSE LET l2 == l + 1 IN
         [w |-> 0, l |-> l2,
          lev |-> IF l2 >= 2
                  THEN Max(c.base_leverage - Min(l2 - 1, 2), 1)
                  ELSE c.base_leverage]

\* the method of the instance at hand
UpdateStreaksAndLeverage(c, w, l, lev, pnl) ==
    IF c.kind = "single"
    THEN SingleUpdateStreaksAndLeverage(c, w, l, lev, pnl)
    ELSE PropUpdateStreaksAndLeverage(c, w, l, lev, pnl)

-----------------------------------------------------------------------------
(* The positions dict, keyed by symbol, as a set of position records       *)

HasPos(ps, s) == \E p \in ps : p.symbol = s
PosOf(ps, s) == CHOOSE p \in ps : p.symbol = s

\* positions[symbol] = rec
DictSet(ps, s, rec) == {p \in ps : p.symbol # s} \cup {rec}

\* del positions[symbol]
DictDel(ps, s) == {p \in ps : p.symbol # s}

\* position['unrealized_pnl'] = v, on the dict entry itself
SetUnrealized(ps, s, v) ==
    {IF p.symbol = s THEN [p EXCEPT !.unrealized_pnl = v] ELSE p : p \in ps}

SymIndex(s) == CHOOSE i \in 1..Len(SymOrder) : SymOrder[i] = s

\* positions.items() / positions.values(): insertion order.  Keys are inserted
\* by the entry loop, date by date and within a date in the order of all_data.
EntryAt(p) == IF "entry_date" \in DOMAIN p THEN p.entry_date ELSE p.entry_time

PosBefore(p, q) ==
    \/ EntryAt(p) < EntryAt(q)
    \/ EntryAt(p) = EntryAt(q) /\ SymIndex(p.symbol) < SymIndex(q.symbol)

RECURSIVE PosItems(_)
PosItems(ps) ==
    IF ps = {} THEN <<>>
    ELSE LET first == CHOOSE p \in ps : \A q \in ps : ~PosBefore(q, p)
         IN <<first>> \o PosItems(ps \ {first})

-----------------------------------------------------------------------------
(* SingleParameterTester: signal, exit rule, one bar of the loop           *)

HasBar(data, s, d) == data[s][d] # NoBar

\* sorted(...) of a set of dates
RECURSIVE SortedDates(_)
SortedDates(D) ==
    IF D = {} THEN <<>>
    ELSE LET first == CHOOSE t \in D : \A u \in D : t <= u
         IN <<first>> \o SortedDates(D \ {first})

\* faulty variant: every date of the calendar, with or without a bar
EveryDate(data) == [t \in 1..Len(data[SymOrder[1]]) |-> t]

\* the combined timeline: the dates at which some symbol has a bar, sorted
Timeline(data) ==
    SortedDates({t \in 1..Len(data[SymOrder[1]]) :
                    \E s \in Symbols : HasBar(data, s, t)})

\* for date in timeline: the last date, and the date after a date
LastDate(data) == Timeline(data)[Len(Timeline(data))]
DateAfter(data, d) ==
    Timeline(data)[1 + CHOOSE k \in 1..Len(Timeline(data)) :
                          Timeline(data)[k] = d]

\* data.loc[:date]: the rows of the symbol up to the date
Hist(data, s, d) == SelectSeq(SubSeq(data[s], 1, d), LAMBDA x : x # NoBar)

\* SingleParameterTester._generate_signal
GenerateSignal(S, hist) ==
    LET L == S.lookback_window IN
    IF Len(hist) < L THEN "HOLD"
    ELSE LET last_price == hist[Len(hist)]
             window_sum == SumSeq(SubSeq(hist, Len(hist) - L + 1, Len(hist)))
         IN IF last_price * L * 100 < window_sum * (100 - S.threshold)
            THEN "BUY"
            ELSE IF last_price * L * 100 > window_sum * (100 + S.threshold)
            THEN "SELL"
            ELSE "HOLD"

\* SingleParameterTester._should_exit_position
ShouldExitPosition(S, position, price) ==
    IF position.type = "BUY"
    THEN \/ price * 100 <= position.entry_price * (100 - S.stop_loss_pct)
         \/ price * 100 >= position.entry_price * (100 + S.take_profit_pct)
    ELSE IF position.type = "SELL"
    THEN \/ price * 100 >= position.entry_price * (100 + S.stop_loss_pct)
         \/ price * 100 <= position.entry_price * (100 - S.take_profit_pct)
    ELSE FALSE

PnlPct(pnl, entry_price, quantity) ==
    IF entry_price * quantity # 0
    THEN FloorDiv(pnl * 10000, entry_price * quantity) ELSE 0

\* The mutable state of a run, gathered in one record:
\*   [current_price, portfolio_value, positions, trades, w, l, lev, log,
\*    opened]   (opened: how many positions each symbol has had opened)

\* lines 137-174: one iteration of the price-update loop, for symbol s
UpdateSymbol(S, st, data, c, s, d) ==
    IF ~HasBar(data, s, d) THEN st
    ELSE
    LET price == data[s][d]
        st1 == [st EXCEPT !.current_price = price]
    IN  IF ~HasPos(st.positions, s) THEN st1
        ELSE
        LET old == PosOf(st.positions, s)
            position == [old EXCEPT !.unrealized_pnl =
                                       (price - old.entry_price) * old.quantity]
        IN  IF ShouldExitPosition(S, position, price)
            THEN LET pnl == (price - position.entry_price) * position.quantity
                     upd == UpdateStreaksAndLeverage(c, st.w, st.l, st.lev, pnl)
                 IN [st1 EXCEPT
                       !.portfolio_value = st.portfolio_value + pnl,
                       !.trades = Append(st.trades,
                           [symbol |-> s, entry_date |-> position.entry_date,
                            exit_date |-> d, entry_price |-> position.entry_price,
                            exit_price |-> price, quantity |-> position.quantity,
                            pnl |-> pnl,
                            pnl_pct |-> PnlPct(pnl, position.entry_price,
                                               position.quantity)]),
                       !.w = upd.w, !.l = upd.l, !.lev = upd.lev,
                       !.log = Append(st.log, pnl),
                       !.positions = DictDel(st.positions, s)]
            ELSE [st1 EXCEPT !.positions = SetUnrealized(st.positions, s,
                                               position.unrealized_pnl)]

\* lines 186-194: the quantity of a new position
EntryQuantity(S, pv, lev, price) ==
    LET quantity == (pv * S.position_size_pct * lev) \div (100 * price)
    IN  IF pv > InitialBalance
        THEN IF pv >= 2 * InitialBalance THEN 2 * quantity
             ELSE (quantity * pv) \div InitialBalance
        ELSE quantity

\* lines 202-212: positions[symbol] = {...}
OpenPosition(st, s, d, signal, quantity) ==
    [st EXCEPT !.positions = DictSet(st.positions, s,
                 [symbol |-> s, entry_date |-> d,
                  entry_price |-> st.current_price, quantity |-> quantity,
                  type |-> signal, unrealized_pnl |-> 0,
                  leverage_applied |-> st.lev,
                  winning_streak |-> st.w, losing_streak |-> st.l]),
              !.opened[s] = @ + 1]

\* faulty variant: the entry loop looks at every symbol that has a bar
MayEnterAlways(st, data, s, d) == HasBar(data, s, d)

\* line 178: the entry loop looks at a symbol that has a bar and no position
MayEnter(st, data, s, d) == HasBar(data, s, d) /\ ~HasPos(st.positions, s)

\* lines 177-212: one iteration of the entry loop, for symbol s
EnterSymbol(S, st, data, s, d) ==
    IF ~MayEnter(st, data, s, d) THEN st
    ELSE
    LET historical_data == Hist(data, s, d)
        signal == GenerateSignal(S, historical_data)
        quantity == EntryQuantity(S, st.portfolio_value, st.lev, st.current_price)
    IN  IF Len(historical_data) < S.lookback_window THEN st
        ELSE IF signal \notin {"BUY", "SELL"} THEN st
        ELSE IF quantity <= 0
                \/ 2 * quantity * st.current_price > st.portfolio_value THEN st
        ELSE OpenPosition(st, s, d, signal, quantity)

\* faulty variant: the price-update loop stops after its first symbol
UpdateFirstSymbolOnly(S, st, data, c, d, i) ==
    IF i > Len(SymOrder) THEN st
    ELSE UpdateSymbol(S, st, data, c, SymOrder[i], d)

\* lines 137-174: the price-update loop over all_data.items(), from the
\* i-th symbol on
RECURSIVE UpdateSymbols(_, _, _, _, _, _)
UpdateSymbols(S, st, data, c, d, i) ==
    IF i > Len(SymOrder) THEN st
    ELSE UpdateSymbols(S, UpdateSymbol(S, st, data, c, SymOrder[i], d),
                       data, c, d, i + 1)

\* lines 177-212: the entry loop over all_data.items(), from the i-th
\* symbol on
RECURSIVE EnterSymbols(_, _, _, _, _)
EnterSymbols(S, st, data, d, i) ==
    IF i > Len(SymOrder) THEN st
    ELSE EnterSymbols(S, EnterSymbol(S, st, data, SymOrder[i], d),
                      data, d, i + 1)

\* faulty variant: the equity point records the cash alone
EquityPointCashOnly(pv, ps, d) ==
    [date |-> d, total_value |-> pv, cash |-> pv, positions |-> Cardinality(ps)]

\* lines 214-225: the equity point of a bar
EquityPoint(pv, ps, d) ==
    [date |-> d,
     total_value |-> pv + SumSeq([i \in 1..Cardinality(ps) |->
                                     PosItems(ps)[i].unrealized_pnl]),
     cash |-> pv,
     positions |-> Cardinality(ps)]

\* lines 227-246: the trades of the positions still open after the last bar
RECURSIVE CloseRemaining(_, _, _)
CloseRemaining(items, data, last_date) ==
    IF items = <<>> THEN <<>>
    ELSE LET position == Head(items)
             hist == Hist(data, position.symbol, Len(data[position.symbol]))
             last_price == hist[Len(hist)]
             pnl == (last_price - position.entry_price) * position.quantity
         IN <<[symbol |-> position.symbol, entry_date |-> position.entry_date,
               exit_date |-> last_date, entry_price |-> position.entry_price,
               exit_price |-> last_price, quantity |-> position.quantity,
               pnl |-> pnl,
               pnl_pct |-> PnlPct(pnl, position.entry_price, position.quantity)]>>
            \o CloseRemaining(Tail(items), data, last_date)

TradePnls(ts) == [i \in 1..Len(ts) |-> ts[i].pnl]

\* lines 249-255: final balance, the positions dict still holding every
\* position that was open after the last bar
FinalBalance(pv, ps) ==
    pv + SumSeq([i \in 1..Cardinality(ps) |->
                    IF PosItems(ps)[i].type = "BUY"
                    THEN PosItems(ps)[i].unrealized_pnl
                    ELSE -PosItems(ps)[i].unrealized_pnl])

\* lines 258-267: the risk factor, per hundred
LeverageRiskFactor(c, fb) ==
    IF (IF fb >= 0 THEN fb ELSE -fb) > InitialBalance * c.extreme_value_threshold
    THEN 10
    ELSE IF fb * 10 < InitialBalance * 5 THEN 50
    ELSE IF fb * 10 < InitialBalance * 8 THEN 80
    ELSE 100

-----------------------------------------------------------------------------
(* SingleParameterTester: the run as a state machine                       *)

RunState == [current_price |-> current_price, portfolio_value |-> portfolio_value,
             positions |-> positions, trades |-> trades,
             w |-> winning_streak, l |-> losing_streak, lev |-> current_leverage,
             log |-> pnl_log, opened |-> opened]

SetRunState(st) ==
    /\ current_price' = st.current_price
    /\ portfolio_value' = st.portfolio_value
    /\ positions' = st.positions
    /\ trades' = st.trades
    /\ winning_streak' = st.w
    /\ losing_streak' = st.l
    /\ current_leverage' = st.lev
    /\ pnl_log' = st.log
    /\ opened' = st.opened

\* timelines the data collaborator can hand over: the first symbol has a bar
\* at every date of the timeline, the others may lack bars
DataSets ==
    {d \in [Symbols -> [1..MaxBars -> Closes \cup {NoBar}]] :
        \A t \in 1..MaxBars :
            /\ d[SymOrder[1]][t] \in Closes
            /\ \A i \in 2..Len(SymOrder) :
                  d[SymOrder[i]][t] \in OtherCloses \cup {NoBar}}

\* the locals at the top of _run_single_backtest (lines 114-117)
StartRun ==
    /\ pc' = "update"
    /\ date' = Timeline(all_data)[1]
    /\ current_price' = 0
    /\ portfolio_value' = InitialBalance
    /\ positions' = {}
    /\ trades' = <<>>
    /\ equity_curve' = <<>>
    /\ final_balance' = 0
    /\ leverage_risk_factor' = 0
    /\ opened' = [s \in Symbols |-> 0]

\* RiskManager.__init__: the portfolio of the process-wide risk manager
NewPortfolio ==
    [total_value |-> InitialBalance, cash |-> InitialBalance, positions |-> {},
     total_pnl |-> 0, total_pnl_pct |-> 0, max_drawdown |-> 0]

\* the components that take no part in the run at hand, as constructed
NoTester ==
    /\ cfg = SingleCfg
    /\ winning_streak = 0
    /\ losing_streak = 0
    /\ current_leverage = SingleCfg.base_leverage
    /\ pnl_log = <<>>
    /\ current_price = 0
    /\ portfolio_value = InitialBalance
    /\ positions = {}
    /\ trades = <<>>
    /\ final_balance = 0
    /\ leverage_risk_factor = 0
    /\ run = 1
    /\ prev_trades = <<>>
    /\ prev_equity = <<>>

NoEngine ==
    /\ portfolio = NewPortfolio
    /\ trade_history = <<>>
    /\ performance_history = <<>>
    /\ buffer_data = [s \in Symbols |-> <<>>]

NoLevels ==
    /\ levels_in = [entry_price |-> 0, position_type |-> "long",
                    stop_loss_pct |-> 0, take_profit_pct |-> 0]
    /\ levels_out = <<>>

NoGrid ==
    /\ parameter_ranges = <<>>
    /\ max_workers = 0
    /\ batch_i = 0
    /\ tasks = <<>>
    /\ batch_results = <<>>
    /\ results = <<>>
    /\ outcomes = <<>>
    /\ touched = <<>>

NoWalk ==
    /\ wf_in = [start_date |-> 0, end_date |-> 0, window_size |-> 0,
                step_size |-> 0]
    /\ windows = <<>>
    /\ window_i = 0
    /\ wf_results = <<>>
    /\ test_runs = <<>>

NoMetrics ==
    /\ metrics_in = [equity_curve |-> <<>>, trade_history |-> <<>>,
                     initial_capital |-> 0]
    /\ metrics_out = <<>>

NoGenetic ==
    /\ ga_in = [population_size |-> 0, generations |-> 0, mutation_rate |-> 0]
    /\ heap = <<>>
    /\ population = <<>>
    /\ generation = 0
    /\ best_results = <<>>
    /\ ga_out = <<>>
    /\ eval_table = <<>>

NoConfirm ==
    /\ confirm_in = [z_scores |-> <<>>, z_score_threshold |-> 0,
                     confirmation_period |-> 0, lookback_window |-> 0]
    /\ confirm_out = "NONE"

\* pd.DataFrame(): the frame without rows
EmptyFrame == [symbol |-> "", interval |-> "", dates |-> {}]

NoCache ==
    /\ cache = <<>>
    /\ last_update = <<>>
    /\ now = 0
    /\ fetches = 0
    /\ dm_out = [request |-> <<>>, data |-> EmptyFrame]

\* SingleParameterTester.__init__ followed by the first call of the run
InitTester ==
    /\ NoEngine /\ NoLevels /\ NoGrid /\ NoWalk /\ NoMetrics
    /\ NoGenetic /\ NoConfirm /\ NoCache
    /\ settings = DefaultSettings
    /\ cfg \in TesterCfgs
    /\ winning_streak = 0
    /\ losing_streak = 0
    /\ current_leverage = cfg.base_leverage
    /\ pnl_log = <<>>
    /\ all_data \in DataSets
    /\ pc = "update"
    /\ date = 1
    /\ current_price = 0
    /\ portfolio_value = InitialBalance
    /\ positions = {}
    /\ trades = <<>>
    /\ equity_curve = <<>>
    /\ final_balance = 0
    /\ leverage_risk_factor = 0
    /\ opened = [s \in Symbols |-> 0]
    /\ run = 1
    /\ prev_trades = <<>>
    /\ prev_equity = <<>>

\* the loop of lines 137-174 at one date
TesterUpdate ==
    /\ pc = "update"
    /\ SetRunState(UpdateSymbols(LoopSettings(cfg, settings), RunState,
                                 all_data, cfg, date, 1))
    /\ pc' = "signals"
    /\ UNCHANGED <<settings, cfg, all_data, date, equity_curve, final_balance,
                   leverage_risk_factor, run, prev_trades, prev_equity,
                   engine_vars, levels_vars, grid_vars, more_vars>>

\* the loop of lines 177-212 at one date
TesterEntry ==
    /\ pc = "signals"
    /\ SetRunState(EnterSymbols(LoopSettings(cfg, settings), RunState,
                                all_data, date, 1))
    /\ pc' = "record"
    /\ UNCHANGED <<settings, cfg, all_data, date, equity_curve, final_balance,
                   leverage_risk_factor, run, prev_trades, prev_equity,
                   engine_vars, levels_vars, grid_vars, more_vars>>

\* lines 214-225, and the step of the loop over the timeline
TesterRecord ==
    /\ pc = "record"
    /\ equity_curve' = Append(equity_curve,
                              EquityPoint(portfolio_value, positions, date))
    /\ IF date # LastDate(all_data)
       THEN date' = DateAfter(all_data, date) /\ pc' = "update"
       ELSE date' = date /\ pc' = "closing"
    /\ UNCHANGED <<settings, streak_vars, all_data, current_price, portfolio_value,
                   positions, trades, final_balance, leverage_risk_factor,
                   run, prev_trades, prev_equity, opened,
                   engine_vars, levels_vars, grid_vars, more_vars>>

\* lines 227-267: the forced close, the final balance and the risk factor
TesterFinish ==
    /\ pc = "closing"
    /\ LET closing == CloseRemaining(PosItems(positions), all_data,
                                     LastDate(all_data))
           pv == portfolio_value + SumSeq(TradePnls(closing))
           fb == FinalBalance(pv, positions)
       IN /\ trades' = trades \o closing
          /\ portfolio_value' = pv
          /\ leverage_risk_factor' = LeverageRiskFactor(cfg, fb)
          /\ final_balance' = IF LeverageRiskFactor(cfg, fb) = 10
                              THEN InitialBalance ELSE fb
    /\ pc' = "done"
    /\ UNCHANGED <<settings, streak_vars, all_data, date, current_price, positions,
                   equity_curve, run, prev_trades, prev_equity, opened,
                   engine_vars, levels_vars, grid_vars, more_vars>>

\* test_current_parameters called once more on the same tester, same data
TesterRunAgain ==
    /\ pc = "done"
    /\ run < MaxRuns
    /\ run' = run + 1
    /\ prev_trades' = trades
    /\ prev_equity' = equity_curve
    /\ StartRun
    /\ UNCHANGED <<settings, streak_vars, all_data, engine_vars, levels_vars,
                   grid_vars, more_vars>>

NextTester ==
    \/ TesterUpdate
    \/ TesterEntry
    \/ TesterRecord
    \/ TesterFinish
    \/ TesterRunAgain

-----------------------------------------------------------------------------
(* RiskManager                                                             *)

\* The risk manager's state, gathered in one record:
\*   [p: portfolio, th: trade_history, ph: performance_history, opened]
\* p = [total_value, cash, positions, total_pnl, total_pnl_pct, max_drawdown]
\* (total_pnl_pct and max_drawdown in hundredths of a per cent)

\* RiskManager._calculate_kelly_fraction, per hundred
CalculateKellyFraction(th, s) ==
    LET symbol_trades == SelectSeq(th, LAMBDA t : t.symbol = s)
        wins == SelectSeq(symbol_trades, LAMBDA t : t.pnl > 0)
        losses == SelectSeq(symbol_trades, LAMBDA t : t.pnl < 0)
        N == Len(symbol_trades)
        W == Len(wins)
        SW == SumSeq(TradePnls(wins))
        SL == -SumSeq(TradePnls(losses))
    IN  IF N < 10 THEN 50
        ELSE IF W = 0 \/ Len(losses) = 0 THEN 50
        ELSE IF SL = 0 THEN 50
        ELSE Max(10, Min(90,
                FloorDiv(100 * W * (SW * Len(losses) - (N - W) * SL),
                         N * Len(losses) * SW)))

\* RiskManager._calculate_risk_multiplier, per hundred
CalculateRiskMultiplier(S, ph) ==
    IF Len(ph) < S.performance_lookback THEN S.risk_multiplier
    ELSE LET recent == SubSeq(ph, Len(ph) - S.performance_lookback + 1, Len(ph))
             n == Len(recent)
             sum == SumSeq([i \in 1..n |-> recent[i].return])
             sumsq == SumSeq([i \in 1..n |-> recent[i].return * recent[i].return])
             nvar == n * sumsq - sum * sum      \* n^2 times the variance
         IN  IF nvar = 0 THEN S.risk_multiplier
             ELSE IF sum > 0 /\ sum * sum * 10000
                                  > nvar * S.sharpe_threshold * S.sharpe_threshold
             THEN Min(S.max_risk_multiplier, (S.risk_multiplier * 110) \div 100)
             ELSE IF sum < 0
             THEN Max(S.min_risk_multiplier, (S.risk_multiplier * 90) \div 100)
             ELSE S.risk_multiplier

\* RiskManager._apply_portfolio_constraints
ApplyPortfolioConstraints(S, p, position_value, pv) ==
    LET v1 == Min(position_value,
                  (pv * S.position_size_pct * 2) \div 100)
        v2 == Min(v1, (pv * S.max_portfolio_risk) \div 100)
        v3 == IF Cardinality(p.positions) >= S.max_positions THEN 0 ELSE v2
        available_cash == p.cash - (pv * S.min_cash_reserve) \div 100
    IN  Max(0, Min(v3, available_cash))

\* RiskManager.calculate_position_size: the quantity, in whole units
CalculatePositionSize(S, rm, s, price, signal_confidence, pv) ==
    LET base == (pv * S.position_size_pct) \div 100
        kelly == IF S.kelly_criterion
                 THEN (((base * CalculateKellyFraction(rm.th, s)) \div 100)
                          * S.kelly_fraction) \div 100
                 ELSE base
        risk == IF S.enable_dynamic_risk
                THEN (kelly * CalculateRiskMultiplier(S, rm.ph)) \div 100
                ELSE kelly
        position_value == (risk * signal_confidence) \div 100
    IN  ApplyPortfolioConstraints(S, rm.p, position_value, pv)
           \div price

\* faulty variant: the short levels are computed like the long ones
StopLossTakeProfitNotMirrored(S, entry_price, position_type) ==
    [stop_loss |-> entry_price * (100 - S.stop_loss_pct),
     take_profit |-> entry_price * (100 + S.take_profit_pct)]

\* RiskManager.calculate_stop_loss_take_profit; the levels times 100
CalculateStopLossTakeProfit(S, entry_price, position_type) ==
    IF position_type = "long"
    THEN [stop_loss |-> entry_price * (100 - S.stop_loss_pct),
          take_profit |-> entry_price * (100 + S.take_profit_pct)]
    ELSE [stop_loss |-> entry_price * (100 + S.stop_loss_pct),
          take_profit |-> entry_price * (100 - S.take_profit_pct)]

\* RiskManager.check_risk_limits (the correlation and sector checks pass for
\* symbols outside the tech list)
CheckRiskLimits(S, p, s, quantity, price) ==
    LET total_exposure ==
            SumSeq([i \in 1..Cardinality(p.positions) |->
                      PosItems(p.positions)[i].quantity
                        * PosItems(p.positions)[i].current_price])
    IN  IF p.max_drawdown > S.max_drawdown_pct * 100 THEN FALSE
        ELSE IF p.total_value = 0 THEN FALSE
        ELSE ~(total_exposure * 100 > p.total_value * S.max_leverage)

\* RiskManager._calculate_portfolio_metrics
CalculatePortfolioMetrics(rm) ==
    LET items == PosItems(rm.p.positions)
        position_value == SumSeq([i \in 1..Len(items) |->
                                    items[i].quantity * items[i].current_price])
        total_value == rm.p.cash + position_value
        total_pnl == SumSeq([i \in 1..Len(items) |-> items[i].unrealized_pnl])
        p1 == [rm.p EXCEPT !.total_value = total_value, !.total_pnl = total_pnl]
    IN  IF total_value - total_pnl = 0
        THEN [rm EXCEPT !.p = p1]      \* ZeroDivisionError, caught and logged
        ELSE LET pct == FloorDiv(total_pnl * 10000, total_value - total_pnl)
             IN [rm EXCEPT
                   !.p = [p1 EXCEPT !.total_pnl_pct = pct,
                                    !.max_drawdown = Min(pct, rm.p.max_drawdown)],
                   !.ph = Append(rm.ph, [total_value |-> total_value,
                                         return |-> pct])]

\* RiskManager.update_portfolio
UpdatePortfolio(rm, s, price) ==
    CalculatePortfolioMetrics(
        [rm EXCEPT !.p.positions =
            {IF q.symbol = s
             THEN [q EXCEPT !.current_price = price,
                            !.unrealized_pnl = (price - q.entry_price) * q.quantity]
             ELSE q : q \in rm.p.positions}])

\* RiskManager.add_position
AddPosition(S, rm, s, position_type, quantity, price, timestamp) ==
    LET levels == CalculateStopLossTakeProfit(S, price, position_type)
        position == [symbol |-> s, position_type |-> position_type,
                     quantity |-> quantity, entry_price |-> price,
                     entry_time |-> timestamp, current_price |-> price,
                     unrealized_pnl |-> 0,
                     stop_loss |-> levels.stop_loss,
                     take_profit |-> levels.take_profit]
    IN  [rm EXCEPT !.p.positions = DictSet(rm.p.positions, s, position),
                   !.p.cash = @ - quantity * price,
                   !.opened[s] = @ + 1]

\* RiskManager.close_position (the trade it returns is the last of th)
ClosePosition(rm, s, price, timestamp) ==
    IF ~HasPos(rm.p.positions, s) THEN rm
    ELSE LET position == PosOf(rm.p.positions, s)
             realized_pnl == IF position.position_type = "long"
                             THEN (price - position.entry_price) * position.quantity
                             ELSE (position.entry_price - price) * position.quantity
         IN [rm EXCEPT
               !.p.cash = @ + position.quantity * price,
               !.p.positions = DictDel(rm.p.positions, s),
               !.th = Append(@,
                   [symbol |-> s, position_type |-> position.position_type,
                    entry_price |-> position.entry_price, exit_price |-> price,
                    quantity |-> position.quantity,
                    entry_time |-> position.entry_time, exit_time |-> timestamp,
                    pnl |-> realized_pnl,
                    pnl_pct |-> PnlPct(realized_pnl, position.entry_price,
                                       position.quantity),
                    exit_reason |-> "none"])]

\* RiskManager.check_stop_loss_take_profit
CheckStopLossTakeProfit(p, s, price) ==
    IF ~HasPos(p.positions, s) THEN "none"
    ELSE LET position == PosOf(p.positions, s) IN
         IF position.position_type = "long"
         THEN IF price * 100 <= position.stop_loss THEN "stop_loss"
              ELSE IF price * 100 >= position.take_profit THEN "take_profit"
              ELSE "none"
         ELSE IF price * 100 >= position.stop_loss THEN "stop_loss"
              ELSE IF price * 100 <= position.take_profit THEN "take_profit"
              ELSE "none"

-----------------------------------------------------------------------------
(* BacktestEngine                                                          *)

MaxEngineBars == 2    \* length of the timeline of an engine run

\* bars the data collaborator can hand to the engine: closes as for the
\* tester, the other symbols trading at one price when they have a bar
EngineDataSets ==
    {d \in [Symbols -> [1..MaxEngineBars -> Closes \cup {NoBar}]] :
        \A t \in 1..MaxEngineBars :
            /\ d[SymOrder[1]][t] \in Closes
            /\ \A i \in 2..Len(SymOrder) : d[SymOrder[i]][t] \in {100, NoBar}}

\* the closes of the buffer days: one bar, which with the lookback window of
\* DefaultSettings gives the first bar of the timeline its indicators
BufferSets ==
    {b \in [Symbols -> {<<c>> : c \in Closes}] :
        \A i \in 2..Len(SymOrder) : b[SymOrder[i]] = <<110>>}

\* data[data.index <= compare_timestamp], lines 239-241, buffer days included
EngineHist(buf, data, s, d) == buf[s] \o Hist(data, s, d)

\* DataManager.calculate_indicators, lines 234-239, at the last row: whether
\* z_score is NaN (fewer rows than the window, or a standard deviation of 0
\* under a deviation of 0) and else its sign, that of Close - moving_avg
ZScore(S, hist) ==
    LET L == S.lookback_window
        window == SubSeq(hist, Len(hist) - L + 1, Len(hist))
    IN IF Len(hist) < L \/ \A i \in 1..L : window[i] = window[1]
       THEN [nan |-> TRUE, sign |-> 0]
       ELSE LET dev == hist[Len(hist)] * L - SumSeq(window)
            IN [nan |-> FALSE,
                sign |-> IF dev > 0 THEN 1 ELSE IF dev < 0 THEN -1 ELSE 0]

Hold(s) == [symbol |-> s, signal_type |-> "HOLD", price |-> 0, confidence |-> 0]

\* faulty variant: the strategy sells whenever the close is not below the
\* moving average
MeanReversionNoNaN(S, hist, s) ==
    {Hold(s), [symbol |-> s, signal_type |-> "SELL",
               price |-> hist[Len(hist)], confidence |-> 60]}

\* MeanReversionStrategy.generate_signal, lines 69-127: what it can answer
\* for the rows up to a bar.  None and a HOLD signal are both Hold(s), the
\* engine acts on neither.  How far the z-score must lie from 0 and whether
\* the confirmation period lets the signal through are left open; the
\* confidence is per hundred.
MeanReversionSignal(S, hist, s) ==
    LET z == ZScore(S, hist)
        price == hist[Len(hist)]
    IN IF Len(hist) < S.lookback_window \/ z.nan \/ z.sign = 0
       THEN {Hold(s)}
       ELSE IF z.sign > 0
       THEN {Hold(s), [symbol |-> s, signal_type |-> "SELL", price |-> price,
                       confidence |-> 60]}
       ELSE {Hold(s), [symbol |-> s, signal_type |-> "BUY", price |-> price,
                       confidence |-> 100]}

\* StrategyManager.generate_signals for one symbol of current_data: a
\* symbol without a bar at the timestamp is not in current_data
SignalsFor(S, buf, data, s, d) ==
    IF ~HasBar(data, s, d) THEN {Hold(s)}
    ELSE MeanReversionSignal(S, EngineHist(buf, data, s, d), s)

RiskState == [p |-> portfolio, th |-> trade_history, ph |-> performance_history,
              opened |-> opened]

SetRiskState(rm) ==
    /\ portfolio' = rm.p
    /\ trade_history' = rm.th
    /\ performance_history' = rm.ph
    /\ opened' = rm.opened

\* BacktestEngine._run_simulation, lines 212-223: update_portfolio for the
\* symbols i.. of data_dict that have a bar at the timestamp
RECURSIVE UpdateAll(_, _, _, _)
UpdateAll(rm, data, d, i) ==
    IF i > Len(SymOrder) THEN rm
    ELSE UpdateAll(IF HasBar(data, SymOrder[i], d)
                   THEN UpdatePortfolio(rm, SymOrder[i], data[SymOrder[i]][d])
                   ELSE rm,
                   data, d, i + 1)

\* trade['exit_reason'] = exit_reason, on the trade close_position has just
\* appended to the trade history
SetExitReason(th, exit_reason) ==
    [th EXCEPT ![Len(th)].exit_reason = exit_reason]

\* BacktestEngine._check_exit_signals, for the symbols i.. of data_dict
RECURSIVE CheckExitSignals(_, _, _, _)
CheckExitSignals(rm, data, d, i) ==
    IF i > Len(SymOrder) THEN rm
    ELSE LET s == SymOrder[i]
             exit_reason == IF HasBar(data, s, d)
                            THEN CheckStopLossTakeProfit(rm.p, s, data[s][d])
                            ELSE "none"
             closed == ClosePosition(rm, s, data[s][d], d)
         IN CheckExitSignals(
                IF exit_reason = "none" THEN rm
                ELSE [closed EXCEPT !.th = SetExitReason(closed.th, exit_reason)],
                data, d, i + 1)

\* BacktestEngine._execute_signal
ExecuteSignal(S, rm, signal, timestamp) ==
    IF signal.signal_type \notin {"BUY", "SELL"} THEN rm
    ELSE LET position_type == IF signal.signal_type = "BUY" THEN "long" ELSE "short"
             rm1 == ClosePosition(rm, signal.symbol, signal.price, timestamp)
             quantity == CalculatePositionSize(S, rm1, signal.symbol, signal.price,
                                               signal.confidence, rm1.p.total_value)
         IN IF quantity > 0 /\ CheckRiskLimits(S, rm1.p, signal.symbol, quantity,
                                               signal.price)
            THEN AddPosition(S, rm1, signal.symbol, position_type, quantity,
                             signal.price, timestamp)
            ELSE rm1

\* lines 247-249: the signals of the bar, executed in the order of data_dict
RECURSIVE ExecuteAll(_, _, _, _, _)
ExecuteAll(S, rm, signals, d, i) ==
    IF i > Len(SymOrder) THEN rm
    ELSE ExecuteAll(S, ExecuteSignal(S, rm, signals[SymOrder[i]], d),
                    signals, d, i + 1)

\* lines 252-259: the equity point of a bar
EngineEquityPoint(p, timestamp) ==
    [timestamp |-> timestamp, total_value |-> p.total_value, cash |-> p.cash,
     total_pnl |-> p.total_pnl, total_pnl_pct |-> p.total_pnl_pct]

\* BacktestEngine.run_backtest, lines 73-78, on the process-wide risk manager
InitEngine ==
    /\ NoTester /\ NoLevels /\ NoGrid /\ NoWalk /\ NoMetrics
    /\ NoGenetic /\ NoConfirm /\ NoCache
    /\ settings = DefaultSettings
    /\ all_data \in EngineDataSets
    /\ buffer_data \in BufferSets
    /\ pc = "e_update"
    /\ date = 1
    /\ portfolio = NewPortfolio
    /\ trade_history = <<>>
    /\ performance_history = <<>>
    /\ equity_curve = <<>>
    /\ opened = [s \in Symbols |-> 0]

\* lines 211-226: the prices of the bar, then the exits
EngineExits ==
    /\ pc = "e_update"
    /\ SetRiskState(CheckExitSignals(UpdateAll(RiskState, all_data, date, 1),
                                     all_data, date, 1))
    /\ pc' = "e_signals"
    /\ UNCHANGED <<settings, all_data, date, equity_curve, streak_vars,
                   tester_locals, levels_vars, grid_vars, more_vars>>

\* lines 228-249: the signals of the bar
EngineSignals ==
    /\ pc = "e_signals"
    /\ \E signals \in [Symbols ->
                          UNION {SignalsFor(settings, buffer_data, all_data, s,
                                            date) : s \in Symbols}] :
          /\ \A s \in Symbols :
                signals[s] \in SignalsFor(settings, buffer_data, all_data, s,
                                          date)
          /\ SetRiskState(ExecuteAll(settings, RiskState, signals, date, 1))
    /\ pc' = "e_record"
    /\ UNCHANGED <<settings, all_data, date, equity_curve, streak_vars,
                   tester_locals, levels_vars, grid_vars, more_vars>>

\* lines 251-259, and the step of the loop over the timestamps
EngineRecord ==
    /\ pc = "e_record"
    /\ equity_curve' = Append(equity_curve, EngineEquityPoint(portfolio, date))
    /\ IF date # LastDate(all_data)
       THEN date' = DateAfter(all_data, date) /\ pc' = "e_update"
       ELSE date' = date /\ pc' = "e_done"
    /\ UNCHANGED <<settings, all_data, engine_vars, opened, streak_vars,
                   tester_locals, levels_vars, grid_vars, more_vars>>

NextEngine ==
    \/ EngineExits
    \/ EngineSignals
    \/ EngineRecord

-----------------------------------------------------------------------------
(* The simulation loops together                                           *)

InitSim == InitTester \/ InitEngine

NextSim == NextTester \/ NextEngine

SimSpec == InitSim /\ [][NextSim]_vars

-----------------------------------------------------------------------------
(* The simulation loops on timelines with gaps                             *)

\* bars in which any symbol may lack a bar at a date and a date may have no
\* bar at all; every symbol has at least one bar
GapDataSets ==
    {d \in [Symbols -> [1..MaxBars -> OtherCloses \cup {NoBar}]] :
        \A s \in Symbols : \E t \in 1..MaxBars : d[s][t] # NoBar}

GapEngineDataSets ==
    {d \in [Symbols -> [1..MaxEngineBars -> Closes \cup {NoBar}]] :
        /\ \A t \in 1..MaxEngineBars :
              \A i \in 2..Len(SymOrder) : d[SymOrder[i]][t] \in {100, NoBar}
        /\ \A s \in Symbols : \E t \in 1..MaxEngineBars : d[s][t] # NoBar}

InitGapTester ==
    /\ NoEngine /\ NoLevels /\ NoGrid /\ NoWalk /\ NoMetrics
    /\ NoGenetic /\ NoConfirm /\ NoCache
    /\ settings = DefaultSettings
    /\ cfg = SingleCfg
    /\ winning_streak = 0
    /\ losing_streak = 0
    /\ current_leverage = cfg.base_leverage
    /\ pnl_log = <<>>
    /\ all_data \in GapDataSets
    /\ pc = "update"
    /\ date = Timeline(all_data)[1]
    /\ current_price = 0
    /\ portfolio_value = InitialBalance
    /\ positions = {}
    /\ trades = <<>>
    /\ equity_curve = <<>>
    /\ final_balance = 0
    /\ leverage_risk_factor = 0
    /\ opened = [s \in Symbols |-> 0]
    /\ run = 1
    /\ prev_trades = <<>>
    /\ prev_equity = <<>>

InitGapEngine ==
    /\ NoTester /\ NoLevels /\ NoGrid /\ NoWalk /\ NoMetrics
    /\ NoGenetic /\ NoConfirm /\ NoCache
    /\ settings = DefaultSettings
    /\ all_data \in GapEngineDataSets
    /\ buffer_data \in BufferSets
    /\ pc = "e_update"
    /\ date = Timeline(all_data)[1]
    /\ portfolio = NewPortfolio
    /\ trade_history = <<>>
    /\ performance_history = <<>>
    /\ equity_curve = <<>>
    /\ opened = [s \in Symbols |-> 0]

InitGap == InitGapTester \/ InitGapEngine

GapSpec == InitGap /\ [][NextSim]_vars

-----------------------------------------------------------------------------
(* The simulation loops under other risk settings                          *)

\* settings a run can be started with (update_strategy_params, environment):
\* the sizing at its defaults, or the whole portfolio per trade without the
\* Kelly reduction, with the per-trade risk cap at its default or lifted;
\* one position or ten; a drawdown limit of 1% or of 20%
RiskSettings ==
    {[DefaultSettings EXCEPT !.position_size_pct = sz.position_size_pct,
                             !.kelly_criterion = sz.kelly_criterion,
                             !.max_portfolio_risk = sz.max_portfolio_risk,
                             !.max_positions = mp,
                             !.max_drawdown_pct = dd] :
        sz \in {[position_size_pct |-> 4, kelly_criterion |-> TRUE,
                 max_portfolio_risk |-> 2],
                [position_size_pct |-> 100, kelly_criterion |-> FALSE,
                 max_portfolio_risk |-> 2],
                [position_size_pct |-> 100, kelly_criterion |-> FALSE,
                 max_portfolio_risk |-> 100]},
        mp \in {1, 10},
        dd \in {1, 20}}

\* PropFirmConfig(max_positions=1), the other fields at their defaults
RiskCfgs == {[PropFirmConfig(1, 5, TRUE, 3, 2) EXCEPT !.max_positions = 1]}

\* a BacktestEngine run under one of the settings
InitRiskEngine ==
    /\ NoTester /\ NoLevels /\ NoGrid /\ NoWalk /\ NoMetrics
    /\ NoGenetic /\ NoConfirm /\ NoCache
    /\ settings \in RiskSettings
    /\ all_data \in EngineDataSets
    /\ buffer_data \in BufferSets
    /\ pc = "e_update"
    /\ date = 1
    /\ portfolio = NewPortfolio
    /\ trade_history = <<>>
    /\ performance_history = <<>>
    /\ equity_curve = <<>>
    /\ opened = [s \in Symbols |-> 0]

\* a PropFirmBot run under one of the configurations
InitRiskProp ==
    /\ NoEngine /\ NoLevels /\ NoGrid /\ NoWalk /\ NoMetrics
    /\ NoGenetic /\ NoConfirm /\ NoCache
    /\ settings = DefaultSettings
    /\ cfg \in RiskCfgs
    /\ winning_streak = 0
    /\ losing_streak = 0
    /\ current_leverage = cfg.base_leverage
    /\ pnl_log = <<>>
    /\ all_data \in DataSets
    /\ pc = "update"
    /\ date = 1
    /\ current_price = 0
    /\ portfolio_value = InitialBalance
    /\ positions = {}
    /\ trades = <<>>
    /\ equity_curve = <<>>
    /\ final_balance = 0
    /\ leverage_risk_factor = 0
    /\ opened = [s \in Symbols |-> 0]
    /\ run = 1
    /\ prev_trades = <<>>
    /\ prev_equity = <<>>

InitRisk == InitRiskEngine \/ InitRiskProp

RiskSpec == InitRisk /\ [][NextSim]_vars

-----------------------------------------------------------------------------
(* _update_streaks_and_leverage taken alone: a tester or a bot, and a      *)
(* sequence of closed trades                                               *)

TradePnlValues == {-50, 0, 50}

InitStreak ==
    /\ NoEngine /\ NoLevels /\ NoGrid /\ NoWalk /\ NoMetrics
    /\ NoGenetic /\ NoConfirm /\ NoCache
    /\ settings = DefaultSettings
    /\ cfg \in PropCfgs \cup {SingleCfg}
    /\ winning_streak = 0
    /\ losing_streak = 0
    /\ current_leverage = cfg.base_leverage
    /\ pnl_log = <<>>
    /\ all_data = [s \in Symbols |-> <<>>]
    /\ pc = "streaks"
    /\ date = 1
    /\ current_price = 0
    /\ portfolio_value = InitialBalance
    /\ positions = {}
    /\ trades = <<>>
    /\ equity_curve = <<>>
    /\ final_balance = 0
    /\ leverage_risk_factor = 0
    /\ opened = [s \in Symbols |-> 0]
    /\ run = 1
    /\ prev_trades = <<>>
    /\ prev_equity = <<>>

\* self._update_streaks_and_leverage(pnl) for one closed trade
StreakTrade ==
    /\ pc = "streaks"
    /\ Len(pnl_log) < MaxTrades
    /\ \E pnl \in TradePnlValues :
          LET upd == UpdateStreaksAndLeverage(cfg, winning_streak, losing_streak,
                                              current_leverage, pnl)
          IN /\ winning_streak' = upd.w
             /\ losing_streak' = upd.l
             /\ current_leverage' = upd.lev
             /\ pnl_log' = Append(pnl_log, pnl)
    /\ UNCHANGED <<cfg, tester_vars, opened, settings, engine_vars, levels_vars,
                   grid_vars, more_vars>>

StreakSpec == InitStreak /\ [][StreakTrade]_vars

-----------------------------------------------------------------------------
(* calculate_stop_loss_take_profit taken alone                             *)

MaxEntryPrice == 12

\* percentages the validator of config.StrategyConfig lets through: (0, 1]
LevelPcts == {1, 5, 10, 50, 100}

InitLevels ==
    /\ NoTester /\ NoEngine /\ NoGrid /\ NoWalk /\ NoMetrics
    /\ NoGenetic /\ NoConfirm /\ NoCache
    /\ levels_in \in [entry_price : 1..MaxEntryPrice,
                      position_type : {"long", "short"},
                      stop_loss_pct : LevelPcts, take_profit_pct : LevelPcts]
    /\ levels_out = <<>>
    /\ settings = [DefaultSettings EXCEPT
                      !.stop_loss_pct = levels_in.stop_loss_pct,
                      !.take_profit_pct = levels_in.take_profit_pct]
    /\ all_data = [s \in Symbols |-> <<>>]
    /\ pc = "levels"
    /\ date = 1
    /\ equity_curve = <<>>
    /\ opened = [s \in Symbols |-> 0]

\* stop_loss, take_profit = calculate_stop_loss_take_profit(entry_price, type)
LevelsCall ==
    /\ pc = "levels"
    /\ LET levels == CalculateStopLossTakeProfit(settings, levels_in.entry_price,
                                                 levels_in.position_type)
       IN levels_out' = <<levels.stop_loss, levels.take_profit>>
    /\ pc' = "levels_done"
    /\ UNCHANGED <<streak_vars, all_data, date, equity_curve, tester_locals,
                   opened, settings, engine_vars, levels_in, grid_vars, more_vars>>

LevelsSpec == InitLevels /\ [][LevelsCall]_vars

-----------------------------------------------------------------------------
(* config.update_strategy_params and ParameterOptimizer.grid_search        *)

MaxWorkers == 2       \* largest max_workers a search is started with

\* the fields of config.StrategyConfig among the settings modelled
StrategyFields ==
    {"lookback_window", "threshold", "position_size_pct", "max_positions",
     "stop_loss_pct", "take_profit_pct", "max_drawdown_pct",
     "enable_dynamic_risk", "risk_multiplier", "min_risk_multiplier",
     "max_risk_multiplier", "performance_lookback", "sharpe_threshold"}

\* StrategyConfig.validate_thresholds and validate_percentages, lines 87-99:
\* what the validators let through when a StrategyConfig is constructed
\* (signal_threshold is not among the settings modelled)
ValidateField(key, v) ==
    IF key \in {"threshold"} THEN v > 0
    ELSE IF key \in {"position_size_pct", "stop_loss_pct", "take_profit_pct",
                     "max_drawdown_pct"}
    THEN 0 < v /\ v <= 100
    ELSE TRUE

\* faulty variant: only the first key of the dict is looked at
UpdateFirstParamOnly(S, params) ==
    IF params = <<>> THEN [settings |-> S, raised |-> FALSE]
    ELSE IF Head(params).name \in StrategyFields
    THEN [settings |-> [S EXCEPT ![Head(params).name] = Head(params).value],
          raised |-> FALSE]
    ELSE [settings |-> S, raised |-> TRUE]

\* config.update_strategy_params, params an ordered dict given as a sequence
\* of [name, value]: the settings it leaves and whether it raised ValueError
RECURSIVE UpdateStrategyParams(_, _)
UpdateStrategyParams(S, params) ==
    IF params = <<>> THEN [settings |-> S, raised |-> FALSE]
    ELSE LET key == Head(params).name
             value == Head(params).value
         IN IF key \in StrategyFields
            THEN UpdateStrategyParams([S EXCEPT ![key] = value], Tail(params))
            ELSE [settings |-> S, raised |-> TRUE]

\* list(product(*param_values)), the last list varying fastest
RECURSIVE Product(_)
Product(param_values) ==
    IF param_values = <<>> THEN << <<>> >>
    ELSE LET values == Head(param_values)
             rest == Product(Tail(param_values))
         IN [k \in 1..(Len(values) * Len(rest)) |->
               <<values[((k - 1) \div Len(rest)) + 1]>>
                 \o rest[((k - 1) % Len(rest)) + 1]]

\* grid_search, lines 61-63
Combinations(ranges) == Product([i \in 1..Len(ranges) |-> ranges[i].values])

\* dict(zip(param_names, params))
ParamDict(ranges, params) ==
    [i \in 1..Len(ranges) |-> [name |-> ranges[i].name, value |-> params[i]]]

\* faulty variant: the results stay in the order the runs finished in
KeepOrder(rs) == rs

\* results.sort(key=lambda x: x.score, reverse=True): a stable sort
RECURSIVE SortByScore(_)
SortByScore(rs) ==
    IF rs = <<>> THEN <<>>
    ELSE LET sorted == SortByScore(SubSeq(rs, 1, Len(rs) - 1))
             r == rs[Len(rs)]
             k == Cardinality({i \in 1..Len(sorted) : sorted[i].score >= r.score})
         IN SubSeq(sorted, 1, k) \o <<r>> \o SubSeq(sorted, k + 1, Len(sorted))

\* what a task of the batch holds: not run yet, None, or an OptimizationResult
Pending == [state |-> "pending", parameters |-> <<>>, score |-> 0]
None == [state |-> "none", parameters |-> <<>>, score |-> 0]
OptimizationResult(parameters, score) ==
    [state |-> "result", parameters |-> parameters, score |-> score]

\* how a run of the engine can end for the search: it raises, or it returns
\* metrics that _calculate_score turns into a score
RunOutcomes == {[failed |-> TRUE, score |-> 0]}
               \cup {[failed |-> FALSE, score |-> sc] : sc \in {1, 2}}

\* parameter_ranges a search is started with; the third names a key that
\* config.StrategyConfig does not have, the fourth holds a threshold and a
\* percentage that the validators of StrategyConfig turn down, the last two
\* name the unknown key after and before a key of StrategyConfig
GridInputs ==
    {<<[name |-> "threshold", values |-> <<1, 2>>],
       [name |-> "stop_loss_pct", values |-> <<5, 10>>]>>,
     <<[name |-> "lookback_window", values |-> <<2, 3, 4>>]>>,
     <<[name |-> "z_score_threshold", values |-> <<1, 2>>]>>,
     <<[name |-> "threshold", values |-> <<0>>],
       [name |-> "take_profit_pct", values |-> <<10, 150>>]>>,
     <<[name |-> "threshold", values |-> <<2>>],
       [name |-> "z_score_threshold", values |-> <<1>>]>>,
     <<[name |-> "z_score_threshold", values |-> <<1>>],
       [name |-> "threshold", values |-> <<2>>]>>}

\* BacktestEngine.run_backtest, lines 73-78: the reset of the process-wide
\* risk manager
ResetRiskManager(rm) ==
    [rm EXCEPT !.p.total_value = InitialBalance, !.p.cash = InitialBalance,
               !.p.positions = {}, !.th = <<>>, !.ph = <<>>]

\* line 69: the cap on the default number of workers
DefaultWorkerCap == 8

\* mp.cpu_count() on the machines a search runs on
CpuCounts == {2, 16}

\* lines 68-69: max_workers when the caller passes None
DefaultMaxWorkers(cpu_count) == Min(cpu_count, DefaultWorkerCap)

\* faulty variant: the batch runs to the end of the combinations
BatchToTheEnd(combinations, i, batch_size) ==
    SubSeq(combinations, i + 1, Len(combinations))

\* line 76: batch = combinations[i:i + batch_size]
BatchOf(combinations, i, batch_size) ==
    SubSeq(combinations, i + 1, Min(i + batch_size, Len(combinations)))

InitGrid ==
    /\ NoTester /\ NoEngine /\ NoLevels /\ NoWalk /\ NoMetrics
    /\ NoGenetic /\ NoConfirm /\ NoCache
    /\ settings = DefaultSettings
    /\ parameter_ranges \in GridInputs
    /\ max_workers \in (1..MaxWorkers)
                          \cup {DefaultMaxWorkers(c) : c \in CpuCounts}
    /\ batch_i = 0
    /\ tasks = <<>>
    /\ batch_results = <<>>
    /\ results = <<>>
    /\ outcomes = <<>>
    /\ touched = <<>>
    /\ all_data = [s \in Symbols |-> <<>>]
    /\ pc = "g_batch"
    /\ date = 1
    /\ equity_curve = <<>>
    /\ opened = [s \in Symbols |-> 0]

\* lines 75-88: the tasks of the next batch are created and handed to gather
GridStartBatch ==
    /\ pc = "g_batch"
    /\ batch_i < Len(Combinations(parameter_ranges))
    /\ LET combinations == Combinations(parameter_ranges)
           batch == BatchOf(combinations, batch_i, max_workers)
           n == Len(batch)
       IN /\ tasks' = [k \in 1..n |-> ParamDict(parameter_ranges, batch[k])]
          /\ batch_results' = [k \in 1..n |-> Pending]
          /\ touched' = [k \in 1..n |-> {}]
    /\ pc' = "g_gather"
    /\ UNCHANGED <<parameter_ranges, max_workers, batch_i, results, outcomes,
                   settings, engine_vars, streak_vars, tester_locals, all_data,
                   date, equity_curve, opened, levels_vars, more_vars>>

\* _run_backtest_with_params of the first task of the batch that has not run:
\* no await of the run suspends, so the tasks run one after the other in the
\* order gather was given them
TaskRun ==
    /\ pc = "g_gather"
    /\ \E j \in 1..Len(tasks) :
          /\ batch_results[j] = Pending
          /\ \A k \in 1..(j - 1) : batch_results[k] # Pending
          /\ LET upd == UpdateStrategyParams(settings, tasks[j])
             IN /\ settings' = upd.settings
                /\ IF upd.raised
                   THEN /\ batch_results' = [batch_results EXCEPT ![j] = None]
                        /\ outcomes' = Append(outcomes,
                                              [failed |-> TRUE, score |-> 0])
                        /\ touched' = [touched EXCEPT ![j] = {"settings"}]
                        /\ UNCHANGED <<engine_vars, opened>>
                   ELSE \E outcome \in RunOutcomes :
                        /\ batch_results' = [batch_results EXCEPT ![j] =
                              IF outcome.failed THEN None
                              ELSE OptimizationResult(tasks[j], outcome.score)]
                        /\ outcomes' = Append(outcomes, outcome)
                        /\ touched' = [touched EXCEPT
                                          ![j] = {"settings", "portfolio"}]
                        /\ SetRiskState(ResetRiskManager(RiskState))
    /\ UNCHANGED <<pc, parameter_ranges, max_workers, batch_i, tasks, results,
                   streak_vars, tester_locals, all_data, date, equity_curve,
                   levels_vars, more_vars>>

\* lines 88-99: gather returns, the results of the batch are collected
GatherBatch ==
    /\ pc = "g_gather"
    /\ \A j \in 1..Len(tasks) : batch_results[j] # Pending
    /\ results' = results \o SelectSeq(batch_results,
                                       LAMBDA r : r.state = "result")
    /\ batch_i' = batch_i + max_workers
    /\ pc' = "g_batch"
    /\ UNCHANGED <<parameter_ranges, max_workers, tasks, batch_results, outcomes,
                   touched, settings, engine_vars, streak_vars, tester_locals,
                   all_data, date, equity_curve, opened, levels_vars, more_vars>>

\* lines 101-105: the sort and the return
GridFinish ==
    /\ pc = "g_batch"
    /\ batch_i >= Len(Combinations(parameter_ranges))
    /\ results' = SortByScore(results)
    /\ pc' = "g_done"
    /\ UNCHANGED <<parameter_ranges, max_workers, batch_i, tasks, batch_results,
                   outcomes, touched, settings, engine_vars, streak_vars,
                   tester_locals, all_data, date, equity_curve, opened,
                   levels_vars, more_vars>>

NextGrid ==
    \/ GridStartBatch
    \/ TaskRun
    \/ GatherBatch
    \/ GridFinish

GridSpec == InitGrid /\ [][NextGrid]_vars

-----------------------------------------------------------------------------
(* ParameterOptimizer.walk_forward_optimization                            *)

MaxDays == 5          \* latest end_date, in days after start_date

\* _generate_windows, lines 245-258: the while loop from current_start on
RECURSIVE GenerateWindowsFrom(_, _, _, _)
GenerateWindowsFrom(current_start, end_date, window_size, step_size) ==
    IF current_start + window_size < end_date
    THEN LET train_end == current_start + window_size
             test_start == train_end
             test_end == Min(test_start + step_size, end_date)
             rest == GenerateWindowsFrom(current_start + step_size, end_date,
                                         window_size, step_size)
         IN IF test_end > test_start
            THEN <<[train_start |-> current_start, train_end |-> train_end,
                    test_start |-> test_start, test_end |-> test_end]>> \o rest
            ELSE rest
    ELSE <<>>

GenerateWindows(start_date, end_date, window_size, step_size) ==
    GenerateWindowsFrom(start_date, end_date, window_size, step_size)

\* the arguments a walk is started with
WalkInputs ==
    [start_date : {0}, end_date : 1..MaxDays, window_size : {2, 3},
     step_size : {2, 3}]

\* parameter_ranges a walk is started with; the last names a key that
\* config.StrategyConfig does not have, so every run of it fails
WalkRanges ==
    {<<[name |-> "threshold", values |-> <<1, 2>>]>>,
     <<[name |-> "z_score_threshold", values |-> <<1>>]>>}

\* faulty variant: the walk reports the best result of the training window
WalkResultOfTraining(train_results, best_params, outcome, i, w) ==
    [train_results[1] EXCEPT !.parameters = best_params]
      @@ [window |-> i, train_period |-> <<w.train_start, w.train_end>>,
          test_period |-> <<w.test_start, w.test_end>>]

\* lines 217-225: the result of the out-of-sample run, tagged with the
\* window.  The three tags are keys the code adds to the parameters dict;
\* they are kept beside it here.
WalkResult(train_results, best_params, outcome, i, w) ==
    OptimizationResult(best_params, outcome.score)
      @@ [window |-> i, train_period |-> <<w.train_start, w.train_end>>,
          test_period |-> <<w.test_start, w.test_end>>]

InitWalk ==
    /\ NoTester /\ NoEngine /\ NoLevels /\ NoMetrics
    /\ NoGenetic /\ NoConfirm /\ NoCache
    /\ settings = DefaultSettings
    /\ parameter_ranges \in WalkRanges
    /\ max_workers \in 1..MaxWorkers
    /\ batch_i = 0
    /\ tasks = <<>>
    /\ batch_results = <<>>
    /\ results = <<>>
    /\ outcomes = <<>>
    /\ touched = <<>>
    /\ wf_in \in WalkInputs
    /\ windows = GenerateWindows(wf_in.start_date, wf_in.end_date,
                                 wf_in.window_size, wf_in.step_size)
    /\ window_i = 0
    /\ wf_results = <<>>
    /\ test_runs = <<>>
    /\ all_data = [s \in Symbols |-> <<>>]
    /\ pc = "w_loop"
    /\ date = 1
    /\ equity_curve = <<>>
    /\ opened = [s \in Symbols |-> 0]

\* lines 202-208: the next window; grid_search is called on its training
\* period (max_workers is left to grid_search, line 68-69)
WalkTrain ==
    /\ pc = "w_loop"
    /\ window_i < Len(windows)
    /\ window_i' = window_i + 1
    /\ batch_i' = 0
    /\ tasks' = <<>>
    /\ batch_results' = <<>>
    /\ results' = <<>>
    /\ outcomes' = <<>>
    /\ touched' = <<>>
    /\ pc' = "g_batch"
    /\ UNCHANGED <<parameter_ranges, max_workers, wf_in, windows, wf_results,
                   test_runs, settings, engine_vars, streak_vars, tester_locals,
                   all_data, date, equity_curve, opened, levels_vars,
                   metrics_vars, buffer_data, genetic_vars, confirm_vars, cache_vars>>

\* lines 210-225: grid_search has returned train_results (the variable
\* results of the search); with none the window is skipped, else the first
\* one's parameters are run on the test period
WalkTest ==
    /\ pc = "g_done"
    /\ window_i >= 1
    /\ LET w == windows[window_i]
           train_results == results
       IN IF train_results = <<>>
          THEN UNCHANGED <<wf_results, test_runs, settings, engine_vars>>
          ELSE LET best_params == train_results[1].parameters
                   upd == UpdateStrategyParams(settings, best_params)
               IN /\ settings' = upd.settings
                  /\ IF upd.raised
                     THEN /\ test_runs' = Append(test_runs,
                                 [window |-> window_i - 1,
                                  start_date |-> w.test_start,
                                  end_date |-> w.test_end,
                                  parameters |-> best_params,
                                  failed |-> TRUE, score |-> 0])
                          /\ UNCHANGED <<wf_results, engine_vars>>
                     ELSE \E outcome \in RunOutcomes :
                          /\ test_runs' = Append(test_runs,
                                 [window |-> window_i - 1,
                                  start_date |-> w.test_start,
                                  end_date |-> w.test_end,
                                  parameters |-> best_params,
                                  failed |-> outcome.failed,
                                  score |-> outcome.score])
                          /\ wf_results' =
                                IF outcome.failed THEN wf_results
                                ELSE Append(wf_results,
                                            WalkResult(train_results, best_params,
                                                       outcome, window_i - 1, w))
                          /\ SetRiskState(ResetRiskManager(RiskState))
    /\ pc' = "w_loop"
    /\ UNCHANGED <<parameter_ranges, max_workers, batch_i, tasks, batch_results,
                   results, outcomes, touched, wf_in, windows, window_i,
                   streak_vars, tester_locals, all_data, date, equity_curve,
                   opened, levels_vars, metrics_vars, buffer_data,
                   genetic_vars, confirm_vars, cache_vars>>

\* lines 227-231: the sort and the return
WalkFinish ==
    /\ pc = "w_loop"
    /\ window_i >= Len(windows)
    /\ wf_results' = SortByScore(wf_results)
    /\ pc' = "w_done"
    /\ UNCHANGED <<grid_vars, wf_in, windows, window_i, test_runs, settings,
                   engine_vars, streak_vars, tester_locals, all_data, date,
                   equity_curve, opened, levels_vars, metrics_vars, buffer_data,
                   genetic_vars, confirm_vars, cache_vars>>

NextWalk ==
    \/ WalkTrain
    \/ NextGrid
    \/ WalkTest
    \/ WalkFinish

WalkSpec == InitWalk /\ [][NextWalk]_vars

-----------------------------------------------------------------------------
(* The performance evaluators taken alone:                                 *)
(* BacktestEngine._calculate_performance_metrics and                       *)
(* SingleParameterTester._calculate_single_metrics.                        *)
(* Ratios are in hundredths of a per cent; of a Sharpe ratio only the sign *)
(* is kept (the code scales a mean by a positive number).                  *)

MaxCurve == 3         \* most equity points handed to an evaluator
MaxMetricTrades == 2  \* most trades handed to an evaluator

\* total_value of the equity points, and the pnl of the trades, handed over
CurveValues == {90, 100, 110}

SeqsUpTo(S, n) == UNION {[1..k -> S] : k \in 0..n}

MinOf(q) == CHOOSE x \in {q[i] : i \in 1..Len(q)} :
               \A i \in 1..Len(q) : x <= q[i]
MaxOf(q) == CHOOSE x \in {q[i] : i \in 1..Len(q)} :
               \A i \in 1..Len(q) : x >= q[i]

\* total_value.pct_change().dropna(): the returns as numerator, denominator
PctChange(values) ==
    [i \in 1..(Len(values) - 1) |->
        [num |-> values[i + 1] - values[i], den |-> values[i]]]

RECURSIVE ProdDen(_)
ProdDen(rs) == IF rs = <<>> THEN 1 ELSE Head(rs).den * ProdDen(Tail(rs))

\* returns.std() > 0: at least two returns (else the deviation is NaN), not
\* all the same
StdPositive(rs) ==
    /\ Len(rs) >= 2
    /\ \E i \in 1..Len(rs) : rs[i].num * rs[1].den # rs[1].num * rs[i].den

\* the sign of returns.mean()
MeanSign(rs) ==
    LET total == SumSeq([i \in 1..Len(rs) |->
                           rs[i].num * (ProdDen(rs) \div rs[i].den)])
    IN IF total > 0 THEN 1 ELSE IF total < 0 THEN -1 ELSE 0

SharpeSign(rs) == IF Len(rs) > 0 /\ StdPositive(rs) THEN MeanSign(rs) ELSE 0

\* (total_value - cummax) / cummax, its minimum over the curve
MinDrawdown(values) ==
    MinOf([i \in 1..Len(values) |->
             LET peak == MaxOf(SubSeq(values, 1, i))
             IN FloorDiv((values[i] - peak) * 10000, peak)])

Abs(x) == IF x < 0 THEN -x ELSE x

\* BacktestEngine._calculate_performance_metrics
CalculatePerformanceMetrics(curve, th) ==
    IF curve = <<>>
    THEN [total_return |-> 0, total_return_pct |-> 0, sharpe_ratio |-> 0,
          max_drawdown |-> 0, max_drawdown_pct |-> 0, win_rate |-> 0,
          profit_factor |-> 0, profit_factor_inf |-> FALSE,
          total_trades |-> 0, winning_trades |-> 0, losing_trades |-> 0,
          avg_win |-> 0, avg_loss |-> 0, best_trade |-> 0, worst_trade |-> 0]
    ELSE LET values == [i \in 1..Len(curve) |-> curve[i].total_value]
             total_return == values[Len(values)] - values[1]
             max_drawdown == MinDrawdown(values)
             pnls == TradePnls(th)
             wins == SelectSeq(pnls, LAMBDA x : x > 0)
             losses == SelectSeq(pnls, LAMBDA x : x < 0)
             avg_win == IF wins = <<>> THEN 0
                        ELSE FloorDiv(SumSeq(wins), Len(wins))
             avg_loss == IF losses = <<>> THEN 0
                         ELSE Abs(FloorDiv(SumSeq(losses), Len(losses)))
             none == th = <<>>
         IN [total_return |-> total_return,
             total_return_pct |-> FloorDiv(total_return * 10000, values[1]),
             sharpe_ratio |-> SharpeSign(PctChange(values)),
             max_drawdown |-> max_drawdown,
             max_drawdown_pct |-> Abs(max_drawdown),
             win_rate |-> IF none THEN 0
                          ELSE (Len(wins) * 10000) \div Len(pnls),
             profit_factor |-> IF none \/ avg_loss = 0 THEN 0
                               ELSE (avg_win * 100) \div avg_loss,
             profit_factor_inf |-> ~none /\ avg_loss = 0,
             total_trades |-> Len(pnls),
             winning_trades |-> Len(wins),
             losing_trades |-> Len(losses),
             avg_win |-> avg_win,
             avg_loss |-> avg_loss,
             best_trade |-> IF none THEN 0 ELSE MaxOf(pnls),
             worst_trade |-> IF none THEN 0 ELSE MinOf(pnls)]

\* PropFirmBot._calculate_metrics, the computation of
\* SingleParameterTester._calculate_single_metrics with the safety threshold
\* taken from the configuration; leverage_risk_factor is per hundred.  avg_holding_period and parameters_used are left out.
CalculateMetrics(c, trade_list, curve, initial_balance, fb, factor) ==
    IF trade_list = <<>>
    THEN [initial_balance |-> initial_balance, final_balance |-> initial_balance,
          total_trades |-> 0, winning_trades |-> 0, losing_trades |-> 0,
          win_percentage |-> 0, total_return |-> 0, total_return_pct |-> 0,
          max_drawdown |-> 0, sharpe_ratio |-> 0, avg_trade_return |-> 0,
          best_trade |-> 0, worst_trade |-> 0]
    ELSE LET pnls == TradePnls(trade_list)
             wins == SelectSeq(pnls, LAMBDA x : x > 0)
             losses == SelectSeq(pnls, LAMBDA x : x < 0)
             total_return == PerHundred(SumSeq(pnls), factor)
             adjusted == PerHundred(fb, factor)
             extreme == Abs(adjusted)
                          > initial_balance * c.safety_balance_threshold
             values == [i \in 1..Len(curve) |-> curve[i].total_value]
         IN [initial_balance |-> initial_balance,
             final_balance |-> IF extreme THEN initial_balance ELSE adjusted,
             total_trades |-> Len(pnls),
             winning_trades |-> Len(wins),
             losing_trades |-> Len(losses),
             win_percentage |-> (Len(wins) * 10000) \div Len(pnls),
             total_return |-> IF extreme THEN 0 ELSE total_return,
             total_return_pct |-> IF extreme THEN 0
                                  ELSE PerTenThousand(total_return,
                                                      initial_balance),
             max_drawdown |-> IF curve = <<>> THEN 0
                              ELSE Abs(MinDrawdown(values)),
             sharpe_ratio |-> IF curve = <<>> THEN 0
                              ELSE SharpeSign(PctChange(values)),
             avg_trade_return |-> FloorDiv(SumSeq(pnls), Len(pnls)),
             best_trade |-> MaxOf(pnls),
             worst_trade |-> MinOf(pnls)]

\* SingleParameterTester._calculate_single_metrics: the same computation with
\* the safety threshold written into the code
CalculateSingleMetrics(trade_list, curve, initial_balance, fb, factor) ==
    CalculateMetrics(SingleCfg, trade_list, curve, initial_balance, fb, factor)

\* what a run can hand to its evaluator: a run appends an equity point at
\* every bar, so there are trades only where there are equity points
MetricsInputs ==
    {m \in [equity_curve : SeqsUpTo([total_value : CurveValues], MaxCurve),
            trade_history : SeqsUpTo([pnl : TradePnlValues], MaxMetricTrades),
            initial_capital : {100}] :
        m.trade_history # <<>> => m.equity_curve # <<>>}

InitMetrics ==
    /\ NoTester /\ NoEngine /\ NoLevels /\ NoGrid /\ NoWalk /\ NoGenetic /\ NoConfirm /\ NoCache
    /\ settings = DefaultSettings
    /\ metrics_in \in MetricsInputs
    /\ metrics_out = <<>>
    /\ all_data = [s \in Symbols |-> <<>>]
    /\ pc = "metrics"
    /\ date = 1
    /\ equity_curve = <<>>
    /\ opened = [s \in Symbols |-> 0]

\* both evaluators are called on the curve and the trades
MetricsCall ==
    /\ pc = "metrics"
    /\ metrics_out' =
          [engine |-> CalculatePerformanceMetrics(metrics_in.equity_curve,
                                                  metrics_in.trade_history),
           single |-> CalculateSingleMetrics(
                         metrics_in.trade_history, metrics_in.equity_curve,
                         metrics_in.initial_capital,
                         metrics_in.initial_capital
                           + SumSeq(TradePnls(metrics_in.trade_history)),
                         100)]
    /\ pc' = "metrics_done"
    /\ UNCHANGED <<streak_vars, all_data, date, equity_curve, tester_locals,
                   opened, settings, engine_vars, levels_vars, grid_vars,
                   walk_vars, metrics_in, buffer_data, genetic_vars, confirm_vars, cache_vars>>

MetricsSpec == InitMetrics /\ [][MetricsCall]_vars

-----------------------------------------------------------------------------
(* The end of a run: the extreme-value check and the report                *)

\* profit and loss of one trade of a run that may have blown up
ReportPnlValues == {-50000, 50000, 600000, 12000000, 150000000}

ReportCfgs == {SingleCfg, PropFirmConfig(1, 5, TRUE, 3, 2)}

\* a run at its last bar with every position closed: the trades booked and
\* the portfolio value they add up to
InitReport ==
    /\ NoEngine /\ NoLevels /\ NoGrid /\ NoWalk /\ NoMetrics /\ NoGenetic
    /\ NoConfirm /\ NoCache
    /\ settings = DefaultSettings
    /\ cfg \in ReportCfgs
    /\ winning_streak = 0
    /\ losing_streak = 0
    /\ current_leverage = cfg.base_leverage
    /\ pnl_log = <<>>
    /\ current_price = 0
    /\ trades \in SeqsUpTo([pnl : ReportPnlValues], MaxMetricTrades)
    /\ portfolio_value = InitialBalance + SumSeq(TradePnls(trades))
    /\ positions = {}
    /\ final_balance = 0
    /\ leverage_risk_factor = 0
    /\ run = 1
    /\ prev_trades = <<>>
    /\ prev_equity = <<>>
    /\ all_data = [s \in Symbols |-> <<>>]
    /\ pc = "finish"
    /\ date = 1
    /\ equity_curve = <<>>
    /\ opened = [s \in Symbols |-> 0]

\* the final balance and the risk factor
ReportFinish ==
    /\ pc = "finish"
    /\ LET fb == FinalBalance(portfolio_value, positions)
       IN /\ leverage_risk_factor' = LeverageRiskFactor(cfg, fb)
          /\ final_balance' = IF LeverageRiskFactor(cfg, fb) = 10
                              THEN InitialBalance ELSE fb
    /\ pc' = "report"
    /\ UNCHANGED <<settings, streak_vars, all_data, date, current_price,
                   portfolio_value, positions, trades, equity_curve, run,
                   prev_trades, prev_equity, opened, engine_vars, levels_vars,
                   grid_vars, more_vars>>

\* return self._calculate_single_metrics(...) / self._calculate_metrics(...)
ReportMetrics ==
    /\ pc = "report"
    /\ metrics_out' = CalculateMetrics(cfg, trades, equity_curve,
                                       InitialBalance, final_balance,
                                       leverage_risk_factor)
    /\ pc' = "reported"
    /\ UNCHANGED <<streak_vars, all_data, date, equity_curve, tester_locals,
                   opened, settings, engine_vars, levels_vars, grid_vars,
                   walk_vars, metrics_in, buffer_data, genetic_vars, confirm_vars, cache_vars>>

NextReport == ReportFinish \/ ReportMetrics

ReportSpec == InitReport /\ [][NextReport]_vars

-----------------------------------------------------------------------------
(* ParameterOptimizer.genetic_optimization                                 *)

MaxPopulation == 6    \* largest population_size a search is started with
MaxGenerations == 5   \* largest number of generations

\* the parameter dicts over the ranges, as tuples of values in key order
ComboSet(ranges) ==
    {Combinations(ranges)[i] : i \in 1..Len(Combinations(ranges))}

\* how a run of the engine ends for the genetic search: it yields nothing,
\* or metrics with a score and a maximum drawdown (per cent)
GaOutcomes ==
    {[failed |-> TRUE, score |-> 0, max_drawdown |-> 0],
     [failed |-> FALSE, score |-> 1, max_drawdown |-> 5],
     [failed |-> FALSE, score |-> 1, max_drawdown |-> 10],
     [failed |-> FALSE, score |-> 2, max_drawdown |-> 5]}

\* the calls of genetic_optimization: a long search over a single value, a
\* large population for one generation without mutation, a small
\* population for two generations with and without mutation
GaInputs ==
    {[ranges |-> <<[name |-> "threshold", values |-> <<1>>]>>,
      population_size |-> MaxPopulation, generations |-> MaxGenerations,
      mutation_rate |-> 10],
     [ranges |-> <<[name |-> "threshold", values |-> <<1, 2>>]>>,
      population_size |-> MaxPopulation, generations |-> 1,
      mutation_rate |-> 0]}
    \cup {[ranges |-> <<[name |-> "threshold", values |-> <<1, 2>>],
                        [name |-> "stop_loss_pct", values |-> <<5>>]>>,
           population_size |-> 3, generations |-> 2, mutation_rate |-> mr] :
             mr \in {0, 10}}

\* _run_backtest_with_params for the dicts i.. of the population, one after
\* the other: the settings as the runs leave them and the results appended.
\* A result refers to the dict it was given (parameters=parameters);
\* evaluated records the values the run was executed with.
RECURSIVE EvaluateFrom(_, _, _, _, _, _, _)
EvaluateFrom(S, rs, h, pop, table, ranges, i) ==
    IF i > Len(pop) THEN [settings |-> S, results |-> rs]
    ELSE LET upd == UpdateStrategyParams(S, ParamDict(ranges, h[pop[i]]))
             outcome == table[h[pop[i]]]
         IN EvaluateFrom(upd.settings,
                IF upd.raised \/ outcome.failed THEN rs
                ELSE Append(rs, [ref |-> pop[i], evaluated |-> h[pop[i]],
                                 score |-> outcome.score,
                                 max_drawdown |-> outcome.max_drawdown]),
                h, pop, table, ranges, i + 1)

\* faulty variant: the slice keeps the whole list
NoTruncation(rs, k) == rs

\* results[:k]
FirstK(rs, k) == SubSeq(rs, 1, Min(k, Len(rs)))

\* line 341: elite_size
EliteSize(population_size) == Max(1, population_size \div 10)

\* _tournament_selection: the dicts that can win a tournament of three
\* results drawn without replacement (a tie is won by any of the best)
TournamentWinners(rs) ==
    {rs[i].ref : i \in {i \in 1..Len(rs) :
        \E T \in SUBSET (1..Len(rs)) :
            /\ Cardinality(T) = 3
            /\ i \in T
            /\ \A j \in T : rs[j].score <= rs[i].score}}

\* _crossover: each key from one parent or the other
Crossover(parent1, parent2) ==
    {child \in [1..Len(parent1) ->
                   {parent1[k] : k \in 1..Len(parent1)}
                     \cup {parent2[k] : k \in 1..Len(parent2)}] :
        \A k \in 1..Len(parent1) : child[k] \in {parent1[k], parent2[k]}}

\* _selection_crossover: the ways it can end.  raised: np.random.choice
\* cannot draw three results out of two; elite: the dicts kept; children:
\* the values of the new dicts
SelectionCrossover(rs, h, population_size) ==
    IF Len(rs) < 2
    THEN {[raised |-> FALSE, elite |-> [i \in 1..Len(rs) |-> rs[i].ref],
           children |-> <<>>]}
    ELSE LET elite == [i \in 1..Len(FirstK(rs, EliteSize(population_size))) |->
                          rs[i].ref]
             n == population_size - Len(elite)
             winners == TournamentWinners(rs)
             child_set == UNION {Crossover(h[a], h[b]) : a \in winners,
                                                         b \in winners}
         IN IF n > 0 /\ Len(rs) < 3
            THEN {[raised |-> TRUE, elite |-> <<>>, children |-> <<>>]}
            ELSE {[raised |-> FALSE, elite |-> elite, children |-> ch] :
                     ch \in [1..Max(n, 0) -> child_set]}

\* faulty variant: mutation never happens
MutationNever(params, ranges, mutation_rate) == {params}

\* _mutation, for one dict: each key is left alone or, if the rate is not
\* zero, drawn again from its values
Mutation(params, ranges, mutation_rate) ==
    IF mutation_rate = 0 THEN {params}
    ELSE {m \in ComboSet(ranges) :
            \A k \in 1..Len(ranges) :
               \/ m[k] = params[k]
               \/ \E v \in 1..Len(ranges[k].values) : m[k] = ranges[k].values[v]}

\* genetic_optimization, lines 275-277, after _initialize_population
InitGenetic ==
    /\ NoTester /\ NoEngine /\ NoLevels /\ NoWalk /\ NoMetrics /\ NoConfirm /\ NoCache
    /\ settings = DefaultSettings
    /\ ga_in \in GaInputs
    /\ parameter_ranges = ga_in.ranges
    /\ max_workers = 0
    /\ batch_i = 0
    /\ tasks = <<>>
    /\ batch_results = <<>>
    /\ results = <<>>
    /\ outcomes = <<>>
    /\ touched = <<>>
    /\ heap \in [1..ga_in.population_size -> ComboSet(ga_in.ranges)]
    /\ population = [i \in 1..ga_in.population_size |-> i]
    /\ generation = 0
    /\ best_results = <<>>
    /\ ga_out = <<>>
    /\ eval_table \in [ComboSet(ga_in.ranges) -> GaOutcomes]
    /\ all_data = [s \in Symbols |-> <<>>]
    /\ pc = "ga_eval"
    /\ date = 1
    /\ equity_curve = <<>>
    /\ opened = [s \in Symbols |-> 0]

\* lines 282-295: the population is evaluated, the results sorted and the
\* best five stored
GaEvaluate ==
    /\ pc = "ga_eval"
    /\ generation < ga_in.generations
    /\ LET ev == EvaluateFrom(settings, <<>>, heap, population, eval_table,
                              parameter_ranges, 1)
           sorted == SortByScore(ev.results)
       IN /\ settings' = ev.settings
          /\ results' = sorted
          /\ best_results' = best_results \o FirstK(sorted, 5)
    /\ pc' = "ga_breed"
    /\ UNCHANGED <<ga_in, heap, population, generation, ga_out, eval_table,
                   parameter_ranges, max_workers, batch_i, tasks, batch_results,
                   outcomes, touched, engine_vars, streak_vars, tester_locals,
                   all_data, date, equity_curve, opened, levels_vars, walk_vars,
                   metrics_vars, buffer_data,
                   confirm_vars, cache_vars>>

\* lines 297-303: selection and crossover, then mutation of the new
\* population in place; an exception ends the search with [] (lines 311-313)
GaBreed ==
    /\ pc = "ga_breed"
    /\ \E sc \in SelectionCrossover(results, heap, ga_in.population_size) :
          IF sc.raised
          THEN /\ ga_out' = <<>>
               /\ pc' = "ga_done"
               /\ UNCHANGED <<heap, population, generation>>
          ELSE LET heap1 == heap \o sc.children
                   new_population ==
                       sc.elite \o [k \in 1..Len(sc.children) |-> Len(heap) + k]
               IN \E mutated \in [1..Len(new_population) ->
                                       ComboSet(parameter_ranges)] :
                     /\ \A k \in 1..Len(new_population) :
                           mutated[k] \in Mutation(heap1[new_population[k]],
                                                   parameter_ranges,
                                                   ga_in.mutation_rate)
                     /\ heap' = [id \in 1..Len(heap1) |->
                                   IF \E k \in 1..Len(new_population) :
                                         new_population[k] = id
                                   THEN mutated[CHOOSE k \in
                                                  1..Len(new_population) :
                                                    new_population[k] = id]
                                   ELSE heap1[id]]
                     /\ population' = new_population
                     /\ generation' = generation + 1
                     /\ pc' = "ga_eval"
                     /\ ga_out' = ga_out
    /\ UNCHANGED <<ga_in, best_results, eval_table, settings, grid_vars,
                   engine_vars, streak_vars, tester_locals, all_data, date,
                   equity_curve, opened, levels_vars, walk_vars, metrics_vars,
                   buffer_data, confirm_vars, cache_vars>>

\* lines 305-309: the sort of the best results and the return of the top 20
GaFinish ==
    /\ pc = "ga_eval"
    /\ generation >= ga_in.generations
    /\ best_results' = SortByScore(best_results)
    /\ ga_out' = FirstK(SortByScore(best_results), 20)
    /\ pc' = "ga_done"
    /\ UNCHANGED <<ga_in, heap, population, generation, eval_table, settings,
                   grid_vars, engine_vars, streak_vars, tester_locals, all_data,
                   date, equity_curve, opened, levels_vars, walk_vars,
                   metrics_vars, buffer_data,
                   confirm_vars, cache_vars>>

NextGenetic ==
    \/ GaEvaluate
    \/ GaBreed
    \/ GaFinish

GeneticSpec == InitGenetic /\ [][NextGenetic]_vars

-----------------------------------------------------------------------------
(* MeanReversionStrategy.generate_signal: threshold rule and confirmation  *)

MaxRows == 3          \* rows of data handed to generate_signal

\* a value of the z_score column, in hundredths; nan: not a number
Z(v) == [nan |-> FALSE, v |-> v]
NaN == [nan |-> TRUE, v |-> 0]
ZValues == {Z(v) : v \in {-250, -180, 0, 180, 250}} \cup {NaN}

\* lines 89-101: the type of the signal for a z-score
Classify(z, z_threshold) ==
    IF z.v > z_threshold THEN "SELL"
    ELSE IF z.v < -z_threshold THEN "BUY"
    ELSE "HOLD"

\* faulty variant: only the latest row is looked at
CheckLatestOnly(zs, signal_type, z_threshold, confirmation_period) ==
    LET z == zs[Len(zs)]
    IN IF signal_type = "BUY" THEN 10 * z.v < -(8 * z_threshold)
       ELSE IF signal_type = "SELL" THEN 10 * z.v > 8 * z_threshold
       ELSE FALSE

\* MeanReversionStrategy._check_confirmation
CheckConfirmation(zs, signal_type, z_threshold, confirmation_period) ==
    IF Len(zs) < confirmation_period THEN FALSE
    ELSE LET recent == SubSeq(zs, Len(zs) - confirmation_period + 1, Len(zs))
             z_scores == SelectSeq(recent, LAMBDA z : ~z.nan)
         IN IF Len(z_scores) < confirmation_period THEN FALSE
            ELSE IF signal_type = "BUY"
            THEN \A i \in 1..Len(z_scores) :
                    10 * z_scores[i].v < -(8 * z_threshold)
            ELSE IF signal_type = "SELL"
            THEN \A i \in 1..Len(z_scores) :
                    10 * z_scores[i].v > 8 * z_threshold
            ELSE FALSE

\* MeanReversionStrategy.generate_signal, lines 71-123: the type of the
\* signal returned, "NONE" for None
GenerateSignalType(zs, S) ==
    IF zs = <<>> \/ Len(zs) < S.lookback_window THEN "NONE"
    ELSE IF zs[Len(zs)].nan THEN "NONE"
    ELSE LET signal_type == Classify(zs[Len(zs)], S.z_score_threshold)
         IN IF CheckConfirmation(zs, signal_type, S.z_score_threshold,
                                 S.confirmation_period)
            THEN signal_type
            ELSE "NONE"

\* the calls: up to MaxRows rows, a threshold of 2.0, a confirmation period
\* of up to MaxRows bars
ConfirmInputs ==
    {[z_scores |-> zs, z_score_threshold |-> 200, confirmation_period |-> n,
      lookback_window |-> 1] :
        zs \in UNION {[1..len -> ZValues] : len \in 1..MaxRows},
        n \in 1..MaxRows}

InitConfirm ==
    /\ NoTester /\ NoEngine /\ NoLevels /\ NoGrid /\ NoWalk /\ NoMetrics
    /\ NoGenetic /\ NoCache
    /\ settings = DefaultSettings
    /\ confirm_in \in ConfirmInputs
    /\ confirm_out = "NONE"
    /\ all_data = [s \in Symbols |-> <<>>]
    /\ pc = "confirm"
    /\ date = 1
    /\ equity_curve = <<>>
    /\ opened = [s \in Symbols |-> 0]

ConfirmCall ==
    /\ pc = "confirm"
    /\ confirm_out' = GenerateSignalType(confirm_in.z_scores, confirm_in)
    /\ pc' = "confirm_done"
    /\ UNCHANGED <<streak_vars, all_data, date, equity_curve, tester_locals,
                   opened, settings, engine_vars, levels_vars, grid_vars,
                   walk_vars, metrics_vars, buffer_data, genetic_vars,
                   confirm_in, cache_vars>>

ConfirmSpec == InitConfirm /\ [][ConfirmCall]_vars

-----------------------------------------------------------------------------
(* DataManager.fetch_historical_data                                       *)

MaxFetches == 3       \* calls of fetch_historical_data in a behaviour

\* the symbols asked for (the source has no data for the second), the
\* intervals, and the date ranges: a training window, the test window after
\* it, and no range given
CacheSymbols == {"A", "NODATA"}
Intervals == {"1h", "1d"}
NoDate == 0
DateRanges == {<<1, 2>>, <<3, 4>>, <<NoDate, NoDate>>}
PeriodDates == 1..4

\* the arguments of a call, as a tuple: symbol, period, interval,
\* start_date, end_date
Requests ==
    {<<symbol, "1y", interval, r[1], r[2]>> :
        symbol \in CacheSymbols, interval \in Intervals, r \in DateRanges}

\* the times of the clock at which calls are made, in seconds: at once,
\* within five minutes, after five minutes, after a day and 100 seconds
ClockValues == {0, 100, 400, 86500}

\* cache_key = f"{symbol}_{period}_{interval}"
CacheKey(request) == <<request[1], request[2], request[3]>>

\* lines 116-120: the entry is there and was stored less than 300 seconds
\* ago by timedelta.seconds, which leaves out whole days
CacheHit(c, lu, t, request) ==
    /\ CacheKey(request) \in DOMAIN c
    /\ CacheKey(request) \in DOMAIN lu
    /\ (t - lu[CacheKey(request)]) % 86400 < 300

\* ticker.history(...): the bars the source has for the range, or for the
\* period when no range is given
History(request) ==
    IF request[1] = "NODATA" THEN EmptyFrame
    ELSE [symbol |-> request[1], interval |-> request[3],
          dates |-> IF request[4] # NoDate /\ request[5] # NoDate
                    THEN request[4]..request[5] ELSE PeriodDates]

\* d[key] = value on a dict
Store(d, key, value) ==
    [k \in (DOMAIN d) \cup {key} |-> IF k = key THEN value ELSE d[k]]

InitCache ==
    /\ NoTester /\ NoEngine /\ NoLevels /\ NoGrid /\ NoWalk /\ NoMetrics
    /\ NoGenetic /\ NoConfirm
    /\ settings = DefaultSettings
    /\ cache = <<>>
    /\ last_update = <<>>
    /\ now = 0
    /\ fetches = 0
    /\ dm_out = [request |-> <<>>, data |-> EmptyFrame]
    /\ all_data = [s \in Symbols |-> <<>>]
    /\ pc = "cache"
    /\ date = 1
    /\ equity_curve = <<>>
    /\ opened = [s \in Symbols |-> 0]

\* time passes between two calls
CacheTick ==
    /\ pc = "cache"
    /\ \E t \in ClockValues :
          /\ t > now
          /\ now' = t
    /\ UNCHANGED <<streak_vars, all_data, pc, date, equity_curve, tester_locals,
                   opened, settings, engine_vars, levels_vars, grid_vars,
                   walk_vars, metrics_vars, buffer_data, genetic_vars,
                   confirm_vars, cache, last_update, fetches, dm_out>>

\* one call of fetch_historical_data
FetchHistoricalData ==
    /\ pc = "cache"
    /\ fetches < MaxFetches
    /\ fetches' = fetches + 1
    /\ \E request \in Requests :
          IF CacheHit(cache, last_update, now, request)
          THEN /\ dm_out' = [request |-> request,
                             data |-> cache[CacheKey(request)]]
               /\ UNCHANGED <<cache, last_update>>
          ELSE IF History(request) = EmptyFrame
          THEN /\ dm_out' = [request |-> request, data |-> EmptyFrame]
               /\ UNCHANGED <<cache, last_update>>
          ELSE /\ cache' = Store(cache, CacheKey(request), History(request))
               /\ last_update' = Store(last_update, CacheKey(request), now)
               /\ dm_out' = [request |-> request, data |-> History(request)]
    /\ UNCHANGED <<streak_vars, all_data, pc, date, equity_curve, tester_locals,
                   opened, settings, engine_vars, levels_vars, grid_vars,
                   walk_vars, metrics_vars, buffer_data, genetic_vars,
                   confirm_vars, now>>

NextCache == CacheTick \/ FetchHistoricalData

CacheSpec == InitCache /\ [][NextCache]_vars

-----------------------------------------------------------------------------
(* Properties                                                              *)

TesterPcs == {"update", "signals", "record", "closing"}
EnginePcs == {"e_update", "e_signals", "e_record", "e_done"}

OpenCount(ps, s) == Cardinality({p \in ps : p.symbol = s})
TradeCount(ts, s) == Len(SelectSeq(ts, LAMBDA t : t.symbol = s))
UnrealizedSum(ps) ==
    SumSeq([i \in 1..Cardinality(ps) |-> PosItems(ps)[i].unrealized_pnl])

\* C1: in each simulation loop every symbol has at most one open position
\* at any time: the positions opened for a symbol so far are, one for one,
\* the trades closed for it plus at most one position still open.
C1_AtMostOnePosition ==
    /\ pc \in TesterPcs =>
          \A s \in Symbols :
             /\ OpenCount(positions, s) <= 1
             /\ opened[s] = TradeCount(trades, s) + OpenCount(positions, s)
    /\ pc \in EnginePcs =>
          \A s \in Symbols :
             /\ OpenCount(portfolio.positions, s) <= 1
             /\ opened[s] = TradeCount(trade_history, s)
                              + OpenCount(portfolio.positions, s)

\* a signal has arrived in the engine for a symbol that was held: the old
\* position is a trade and the new one is the only one open
C1_Witness ==
    /\ pc \in EnginePcs
    /\ \E s \in Symbols : /\ opened[s] = 2
                          /\ TradeCount(trade_history, s) = 1
                          /\ HasPos(portfolio.positions, s)

\* the state right after an equity point has been appended
JustRecorded ==
    \/ pc \in {"closing", "e_done"}
    \/ pc \in {"update", "e_update"} /\ date > 1

\* C2 as stated: at every equity point of every loop, the recorded total
\* equals the recorded cash plus the unrealized P&L of the open positions.
C2_CashPlusUnrealized ==
    JustRecorded =>
       LET point == equity_curve[Len(equity_curve)]
       IN point.total_value
            = point.cash + UnrealizedSum(IF pc \in EnginePcs
                                         THEN portfolio.positions ELSE positions)

\* C2, amended: in the single-test and prop-firm loops the recorded total is
\* the recorded cash plus the unrealized P&L of the open positions; in the
\* BacktestEngine the recorded total is the recorded cash plus the market
\* value (quantity times current price) of the open positions.
C2_EquityIdentity ==
    JustRecorded =>
       LET point == equity_curve[Len(equity_curve)]
           items == PosItems(portfolio.positions)
       IN IF pc \in EnginePcs
          THEN /\ point.cash = portfolio.cash
               /\ point.total_value
                    = point.cash
                      + SumSeq([i \in 1..Len(items) |->
                                  items[i].quantity * items[i].current_price])
          ELSE /\ point.cash = portfolio_value
               /\ point.total_value = point.cash + UnrealizedSum(positions)

\* an engine equity point recorded while a position with a P&L is open
C2_Witness ==
    /\ pc \in EnginePcs
    /\ JustRecorded
    /\ \E p \in portfolio.positions : p.unrealized_pnl # 0

\* C3: a trade with pnl > 0 sets the losing streak to 0 and adds one to the
\* winning streak, any other trade sets the winning streak to 0 and adds one
\* to the losing streak; so the two streaks are never both non-zero.
C3_StreakRule ==
    /\ [][pnl_log' # pnl_log =>
            IF pnl_log'[Len(pnl_log')] > 0
            THEN losing_streak' = 0 /\ winning_streak' = winning_streak + 1
            ELSE winning_streak' = 0 /\ losing_streak' = losing_streak + 1]_vars
    /\ [](winning_streak = 0 \/ losing_streak = 0)

\* a win has ended a losing streak of two
C3_Witness ==
    /\ pc = "streaks"
    /\ Len(pnl_log) = 3
    /\ pnl_log[1] <= 0 /\ pnl_log[2] <= 0 /\ pnl_log[3] > 0
    /\ winning_streak = 1 /\ losing_streak = 0

AllWins(log) == \A i \in 1..Len(log) : log[i] > 0

LeverageAfterWins(c, n) ==
    IF n <= 2 THEN c.base_leverage
    ELSE IF n = 3 THEN c.base_leverage + 1
    ELSE c.base_leverage + 2

\* C4 as stated: with threshold 3 and base + 2 <= max, the leverage after
\* the 1st..4th consecutive win from zero streaks is base, base, base + 1,
\* base + 2.
C4_LeverageSteps ==
    (/\ pc = "streaks"
     /\ cfg.winning_streak_threshold = 3
     /\ cfg.base_leverage + 2 <= cfg.max_leverage
     /\ Len(pnl_log) \in 1..4
     /\ AllWins(pnl_log))
    => current_leverage = LeverageAfterWins(cfg, Len(pnl_log))

\* C4, amended: the same, for an instance whose dynamic leverage is enabled
\* (a PropFirmBot with enable_dynamic_leverage = False stays at base).
C4_LeverageStepsEnabled ==
    (/\ pc = "streaks"
     /\ cfg.enable_dynamic_leverage
     /\ cfg.winning_streak_threshold = 3
     /\ cfg.base_leverage + 2 <= cfg.max_leverage
     /\ Len(pnl_log) \in 1..4
     /\ AllWins(pnl_log))
    => current_leverage = LeverageAfterWins(cfg, Len(pnl_log))

\* a bot with base leverage 2 after its 4th win in a row
C4_Witness ==
    /\ pc = "streaks"
    /\ cfg.kind = "prop" /\ cfg.enable_dynamic_leverage
    /\ cfg.winning_streak_threshold = 3
    /\ cfg.base_leverage = 2 /\ cfg.max_leverage = 5
    /\ Len(pnl_log) = 4 /\ AllWins(pnl_log)
    /\ current_leverage = 4

\* C5: a second run on the same instance, same bars and parameters, yields
\* the trades and the equity points of the first run.
C5_SecondRunIdentical ==
    (pc = "done" /\ run >= 2) =>
        trades = prev_trades /\ equity_curve = prev_equity

\* C6: when a run has finished no position opened in it is still open, and
\* each position opened in it is exactly one trade of the trade history.
C6_AllClosedAtEnd ==
    /\ pc = "done" =>
          \A s \in Symbols : opened[s] = TradeCount(trades, s)
    /\ pc = "e_done" =>
          /\ portfolio.positions = {}
          /\ \A s \in Symbols : opened[s] = TradeCount(trade_history, s)

StrictlyBetween(position_type, entry_price, S, price) ==
    IF position_type = "long"
    THEN /\ price * 100 > entry_price * (100 - S.stop_loss_pct)
         /\ price * 100 < entry_price * (100 + S.take_profit_pct)
    ELSE /\ price * 100 < entry_price * (100 + S.stop_loss_pct)
         /\ price * 100 > entry_price * (100 - S.take_profit_pct)

\* C7: in the engine a position is closed at the first bar of its symbol
\* whose close has reached the stop-loss level (reason stop_loss) or the
\* take-profit level (reason take_profit), equality included and mirrored
\* for a short position, and a close strictly between the levels never
\* closes it.
C7_ExitRule ==
    pc \in EnginePcs =>
      /\ \A i \in 1..Len(trade_history) :
            LET t == trade_history[i] IN
            /\ ~StrictlyBetween(t.position_type, t.entry_price, settings,
                                t.exit_price)
            /\ t.exit_reason \in {"stop_loss", "take_profit"}
            /\ t.exit_reason = "stop_loss" <=>
                 IF t.position_type = "long"
                 THEN t.exit_price * 100
                        <= t.entry_price * (100 - settings.stop_loss_pct)
                 ELSE t.exit_price * 100
                        >= t.entry_price * (100 + settings.stop_loss_pct)
      /\ pc # "e_update" =>
            \A p \in portfolio.positions :
               HasBar(all_data, p.symbol, date) =>
                  StrictlyBetween(p.position_type, p.entry_price, settings,
                                  all_data[p.symbol][date])

\* C8: for entry_price > 0 and percentages in (0, 1], the long levels are
\* stop_loss = entry * (1 - stop_loss_pct) strictly below the entry and
\* take_profit = entry * (1 + take_profit_pct) strictly above it, and the
\* short levels are mirrored: stop_loss above, take_profit below the entry.
C8_Levels ==
    pc = "levels_done" =>
       LET entry == levels_in.entry_price
           stop_loss == levels_out[1]
           take_profit == levels_out[2]
       IN IF levels_in.position_type = "long"
          THEN /\ stop_loss = entry * (100 - levels_in.stop_loss_pct)
               /\ take_profit = entry * (100 + levels_in.take_profit_pct)
               /\ stop_loss < entry * 100
               /\ take_profit > entry * 100
          ELSE /\ stop_loss = entry * (100 + levels_in.stop_loss_pct)
               /\ take_profit = entry * (100 - levels_in.take_profit_pct)
               /\ stop_loss > entry * 100
               /\ take_profit < entry * 100

\* the levels of a short position have been computed, with a take-profit
\* percentage of one (the level is then 0)
C8_Witness ==
    /\ pc = "levels_done"
    /\ levels_in.position_type = "short"
    /\ levels_in.take_profit_pct = 100
    /\ levels_out[1] > levels_in.entry_price * 100
    /\ levels_out[2] = 0

\* the combinations whose run has ended without failing
Succeeded == {k \in 1..Len(outcomes) : ~outcomes[k].failed}

\* C9: grid_search returns one result for each combination of the product
\* whose run did not fail and none for a failed one, by non-increasing
\* score; every combination is run whatever runs failed before it.
C9_GridResults ==
    pc = "g_done" =>
       LET combinations == Combinations(parameter_ranges) IN
       /\ Len(outcomes) = Len(combinations)
       /\ Len(results) = Cardinality(Succeeded)
       /\ \A k \in 1..Len(combinations) :
             LET hits == {i \in 1..Len(results) :
                            results[i].parameters
                              = ParamDict(parameter_ranges, combinations[k])}
             IN IF outcomes[k].failed THEN hits = {}
                ELSE /\ Cardinality(hits) = 1
                     /\ \A i \in hits : results[i].score = outcomes[k].score
       /\ \A i \in 1..(Len(results) - 1) :
             results[i].score >= results[i + 1].score

\* a search has returned in which the first run of a batch of two failed,
\* the second did not, and a later run scored higher than an earlier one
C9_Witness ==
    /\ pc = "g_done"
    /\ max_workers = 2
    /\ Len(outcomes) = 4
    /\ outcomes[1].failed /\ ~outcomes[2].failed
    /\ ~outcomes[3].failed /\ outcomes[3].score > outcomes[2].score
    /\ Len(results) >= 2

\* C10: the runs of one batch, in flight together, never read or write the
\* same Portfolio, RiskState or settings object.
C10_NoSharedObjects ==
    \A i \in DOMAIN touched : \A j \in DOMAIN touched :
        i # j => touched[i] \cap touched[j] = {}

\* the out-of-sample run of window i (counted from 0) that did not fail
TestRunOf(i) ==
    {k \in 1..Len(test_runs) : test_runs[k].window = i /\ ~test_runs[k].failed}

\* C11: every result walk_forward_optimization holds or returns carries the
\* score of the run over the test window of its window, which starts where
\* the training window ends and ends no later than end_date, with the
\* parameters ranked first by the grid search on the training window; it is
\* the score of that run and not one of the training window.
C11_OutOfSample ==
    /\ [](pc \in {"w_loop", "g_batch", "g_gather", "g_done", "w_done"} =>
            \A n \in 1..Len(wf_results) :
               LET r == wf_results[n]
                   w == windows[r.window + 1]
               IN /\ r.test_period = <<w.train_end, w.test_end>>
                  /\ r.train_period = <<w.train_start, w.train_end>>
                  /\ w.test_start = w.train_end
                  /\ w.test_end <= wf_in.end_date
                  /\ w.test_end > w.test_start
                  /\ Cardinality(TestRunOf(r.window)) = 1
                  /\ \A k \in TestRunOf(r.window) :
                        /\ test_runs[k].start_date = w.test_start
                        /\ test_runs[k].end_date = w.test_end
                        /\ test_runs[k].parameters = r.parameters
                        /\ test_runs[k].score = r.score)
    /\ [][(pc = "g_done" /\ test_runs' # test_runs) =>
            LET t == test_runs'[Len(test_runs')]
            IN /\ t.parameters = results[1].parameters
               /\ \A i \in 1..Len(results) :
                     results[1].score >= results[i].score
               /\ t.window = window_i - 1]_vars

\* a walk over two windows has returned two results; the second test window
\* was cut at end_date, and its run scored below the best training run
C11_Witness ==
    /\ pc = "w_done"
    /\ Len(windows) = 2
    /\ Len(wf_results) = 2
    /\ windows[2].test_end = wf_in.end_date
    /\ windows[2].test_end < windows[2].test_start + wf_in.step_size
    /\ results # <<>> /\ results[1].score = 2
    /\ \E n \in 1..2 : wf_results[n].window = 1 /\ wf_results[n].score = 1

ValidParams(params) ==
    \A i \in 1..Len(params) : ValidateField(params[i].name, params[i].value)

\* C12: a parameter value outside its valid domain is turned down before
\* any run: it is never stored in the strategy settings, no run is made
\* with it, and no result of the search carries it.
C12_InvalidRejected ==
    pc \in {"g_batch", "g_gather", "g_done"} =>
       /\ \A key \in StrategyFields : ValidateField(key, settings[key])
       /\ \A i \in 1..Len(results) : ValidParams(results[i].parameters)
       /\ \A j \in 1..Len(tasks) :
             "portfolio" \in touched[j] => ValidParams(tasks[j])

\* a series with a bar at every date, every close the same
FlatSeries(closes) ==
    /\ closes # <<>>
    /\ \A i \in 1..Len(closes) : closes[i] # NoBar /\ closes[i] = closes[1]

\* C13: for a flat series of a symbol the signal generator answers HOLD (or
\* nothing) at every bar, and a run opens no position and records no trade
\* for it; so a run over flat series alone has zero trades.
C13_FlatNoTrades ==
    /\ pc \in TesterPcs \cup {"done"} =>
          \A s \in Symbols :
             FlatSeries(all_data[s]) =>
                /\ \A d \in 1..Len(all_data[s]) :
                      GenerateSignal(LoopSettings(cfg, settings),
                                     Hist(all_data, s, d)) = "HOLD"
                /\ opened[s] = 0
                /\ ~HasPos(positions, s)
                /\ TradeCount(trades, s) = 0
    /\ pc \in EnginePcs =>
          \A s \in Symbols :
             FlatSeries(buffer_data[s] \o all_data[s]) =>
                /\ \A d \in 1..Len(all_data[s]) :
                      SignalsFor(settings, buffer_data, all_data, s, d)
                        = {Hold(s)}
                /\ opened[s] = 0
                /\ ~HasPos(portfolio.positions, s)
                /\ TradeCount(trade_history, s) = 0

\* an engine run has ended in which the first symbol was flat and the other
\* one, which was not, has been traded
C13_Witness ==
    /\ pc = "e_done"
    /\ FlatSeries(buffer_data[SymOrder[1]] \o all_data[SymOrder[1]])
    /\ opened[SymOrder[1]] = 0
    /\ opened[SymOrder[2]] >= 1

EngineMetricsZero(m) ==
    /\ m.total_return = 0 /\ m.total_return_pct = 0 /\ m.sharpe_ratio = 0
    /\ m.max_drawdown = 0 /\ m.max_drawdown_pct = 0 /\ m.win_rate = 0
    /\ m.profit_factor = 0 /\ ~m.profit_factor_inf
    /\ m.total_trades = 0 /\ m.winning_trades = 0 /\ m.losing_trades = 0
    /\ m.best_trade = 0 /\ m.worst_trade = 0

SingleMetricsZero(m) ==
    /\ m.total_return = 0 /\ m.total_return_pct = 0 /\ m.sharpe_ratio = 0
    /\ m.max_drawdown = 0 /\ m.win_percentage = 0
    /\ m.total_trades = 0 /\ m.winning_trades = 0 /\ m.losing_trades = 0
    /\ m.best_trade = 0 /\ m.worst_trade = 0

\* C14: given an empty equity curve or an empty trade list, an evaluator
\* returns metrics whose numeric fields are all zero.
C14_EmptyAllZero ==
    (/\ pc = "metrics_done"
     /\ \/ metrics_in.equity_curve = <<>>
        \/ metrics_in.trade_history = <<>>)
    => /\ EngineMetricsZero(metrics_out.engine)
       /\ SingleMetricsZero(metrics_out.single)

\* the task of the batch that runs next
NextTask == CHOOSE j \in 1..Len(tasks) :
               /\ batch_results[j] = Pending
               /\ \A k \in 1..(j - 1) : batch_results[k] # Pending

InFavour(p) ==
    IF p.position_type = "long" THEN p.current_price > p.entry_price
    ELSE p.current_price < p.entry_price

\* C16: after add_position and update_portfolio for a symbol the portfolio
\* holds exactly one position for it, whose unrealized P&L is positive
\* exactly when the price has moved in its favour (long: above the entry
\* price, short: below it).
C16_UnrealizedSign ==
    pc \in EnginePcs =>
       \A p \in portfolio.positions :
          /\ OpenCount(portfolio.positions, p.symbol) = 1
          /\ p.quantity > 0
          /\ p.unrealized_pnl > 0 <=> InFavour(p)

\* C17: every trade appended to the trade log of a run, those of the forced
\* close at the end included, is followed by one streak/leverage update
\* with its pnl; so when the run has ended the streaks are those left by
\* the last trade of the log.
C17_UpdateAfterEveryTrade ==
    (pc = "done" /\ run = 1) =>
       /\ Len(pnl_log) = Len(trades)
       /\ \A i \in 1..Len(trades) : pnl_log[i] = trades[i].pnl
       /\ trades # <<>> =>
             IF trades[Len(trades)].pnl > 0
             THEN winning_streak >= 1 /\ losing_streak = 0
             ELSE losing_streak >= 1 /\ winning_streak = 0

\* C18: with dynamic leverage enabled, after k wins in a row from zero
\* streaks, k at least the winning-streak threshold N, the leverage is
\* min(base_leverage + (k - N + 1), max_leverage).
C18_StepPerExtraWin ==
    (/\ pc = "streaks"
     /\ cfg.enable_dynamic_leverage
     /\ AllWins(pnl_log)
     /\ Len(pnl_log) >= cfg.winning_streak_threshold)
    => current_leverage
         = Min(cfg.base_leverage
                 + (Len(pnl_log) - cfg.winning_streak_threshold + 1),
               cfg.max_leverage)

\* C18, amended: the increase is limited to two steps: after k >= N wins in a
\* row the leverage is min(base_leverage + min(k - N + 1, 2), max_leverage),
\* so a long winning streak stops at base_leverage + 2.
C18_StepCappedAtTwo ==
    (/\ pc = "streaks"
     /\ cfg.enable_dynamic_leverage
     /\ AllWins(pnl_log)
     /\ Len(pnl_log) >= cfg.winning_streak_threshold)
    => current_leverage
         = Min(cfg.base_leverage
                 + Min(Len(pnl_log) - cfg.winning_streak_threshold + 1, 2),
               cfg.max_leverage)

\* two wins beyond the threshold, with room for a third step below the
\* maximum: the leverage stays two steps above the base
C18_Witness ==
    /\ pc = "streaks"
    /\ cfg.enable_dynamic_leverage
    /\ AllWins(pnl_log)
    /\ Len(pnl_log) = cfg.winning_streak_threshold + 2
    /\ cfg.base_leverage + 3 <= cfg.max_leverage
    /\ current_leverage = cfg.base_leverage + 2

\* C19: with 1 <= base_leverage <= max_leverage, after any sequence of
\* winning and losing trades 1 <= current_leverage <= max_leverage.
C19_LeverageBounds ==
    (/\ pc = "streaks"
     /\ 1 <= cfg.base_leverage
     /\ cfg.base_leverage <= cfg.max_leverage)
    => /\ 1 <= current_leverage
       /\ current_leverage <= cfg.max_leverage

\* a bot with base leverage 2 has lost three times in a row after a win:
\* two steps down would be 0, the leverage is 1
C19_Witness ==
    /\ pc = "streaks"
    /\ cfg.kind = "prop" /\ cfg.enable_dynamic_leverage
    /\ cfg.base_leverage = 2 /\ cfg.losing_streak_threshold = 1
    /\ Len(pnl_log) = 4 /\ pnl_log[1] > 0
    /\ losing_streak = 3
    /\ current_leverage = 1

\* the exit checks of the bar are complete: no position still open meets
\* its exit rule at the close of the bar
ExitChecksComplete ==
    /\ pc = "signals" =>
          \A p \in positions :
             HasBar(all_data, p.symbol, date) =>
                ~ShouldExitPosition(LoopSettings(cfg, settings), p,
                                    all_data[p.symbol][date])
    /\ pc = "e_signals" =>
          \A s \in Symbols :
             HasBar(all_data, s, date) =>
                CheckStopLossTakeProfit(portfolio, s, all_data[s][date]) = "none"

\* while the exits and entries of a bar are applied, the equity curve holds
\* the points of the earlier bars only
PointNotYetAppended ==
    pc \in {"update", "signals", "record", "e_update", "e_signals", "e_record"}
       => Len(equity_curve) = date - 1

\* the order of the steps of one bar, in both simulation loops
BarOrderStep ==
    /\ pc \in {"update", "e_update"} =>
        /\ opened' = opened
        /\ pc' \in {"signals", "e_signals"}
        /\ date' = date
    /\ pc \in {"signals", "e_signals"} =>
        /\ pc' \in {"record", "e_record"}
        /\ date' = date
    /\ pc = "record" =>
        /\ Len(equity_curve') = Len(equity_curve) + 1
        /\ equity_curve'[Len(equity_curve')].date = date
        /\ equity_curve'[Len(equity_curve')].positions
              = Cardinality(positions)
        /\ positions' = positions /\ trades' = trades
        /\ portfolio_value' = portfolio_value
    /\ pc = "e_record" =>
        /\ Len(equity_curve') = Len(equity_curve) + 1
        /\ equity_curve'[Len(equity_curve')].timestamp = date
        /\ equity_curve'[Len(equity_curve')].total_value
              = portfolio.total_value
        /\ portfolio' = portfolio /\ trade_history' = trade_history
    /\ Len(equity_curve') > Len(equity_curve) =>
        pc \in {"record", "e_record"}

\* C20: within a bar the exit checks of all open positions complete before
\* any entry is evaluated, and the equity point of the bar is appended only
\* after all exits and entries of the bar have been applied.
C20_BarOrder ==
    /\ [](ExitChecksComplete /\ PointNotYetAppended)
    /\ [][BarOrderStep]_vars

\* the last bar of a tester run saw an exit and then an entry, and its
\* equity point has been appended
C20_Witness ==
    /\ pc = "closing"
    /\ Len(equity_curve) = date
    /\ trades # <<>> /\ trades[Len(trades)].exit_date = date
    /\ \E p \in positions : p.entry_date = date

\* the entry step of a bar leaves the positions it finds, and the trades
EntryKeepsPositions ==
    /\ pc = "signals" =>
        /\ trades' = trades
        /\ \A q \in positions : q \in positions'
    /\ pc = "e_signals" =>
        /\ trade_history' = trade_history
        /\ \A q \in portfolio.positions : q \in portfolio'.positions

\* C21: the entry step acts only on symbols with no open position: a signal
\* for a symbol that already has a position never closes, replaces or
\* resizes that position and never appends a trade.
C21_EntryKeepsPositions == [][EntryKeepsPositions]_vars

\* the drawdown of the portfolio is beyond the limit of the settings
DrawdownBeyondLimit ==
    portfolio.max_drawdown < -(settings.max_drawdown_pct * 100)

\* while the drawdown is beyond the limit the signals of a bar open nothing
NoEntryBeyondLimit ==
    (pc = "e_signals" /\ DrawdownBeyondLimit) => opened' = opened

\* C22: check_risk_limits vetoes any proposed trade while the drawdown of the
\* portfolio exceeds max_drawdown_pct: once the drawdown is beyond the limit
\* no new position is opened.
C22_DrawdownVeto == [][NoEntryBeyondLimit]_vars

\* the run at hand is a BacktestEngine run
EngineRun == pc \in {"e_update", "e_signals", "e_record", "e_done"}

\* the risk manager of the engine never holds more positions than
\* settings.strategy.max_positions
EngineMaxPositions ==
    EngineRun => Cardinality(portfolio.positions) <= settings.max_positions

\* the positions dict of the bot never holds more than config.max_positions
PropMaxPositions ==
    ~EngineRun => Cardinality(positions) <= cfg.max_positions

\* C23: in any simulation run the number of simultaneously open positions
\* never exceeds the configured max_positions.
C23_MaxPositions == EngineMaxPositions /\ PropMaxPositions

\* calculate_position_size, lines 88-104: the position value proposed to
\* _apply_portfolio_constraints
ProposedValue(S, rm, s, signal_confidence, pv) ==
    LET base == (pv * S.position_size_pct) \div 100
        kelly == IF S.kelly_criterion
                 THEN (((base * CalculateKellyFraction(rm.th, s)) \div 100)
                          * S.kelly_fraction) \div 100
                 ELSE base
        risk == IF S.enable_dynamic_risk
                THEN (kelly * CalculateRiskMultiplier(S, rm.ph)) \div 100
                ELSE kelly
    IN  (risk * signal_confidence) \div 100

\* a position opened by the signals of a bar has the size that was proposed
\* for one of the signals of its symbol
OpenedAtProposedSize ==
    pc = "e_signals" =>
        \A s \in Symbols :
            opened'[s] > opened[s] =>
                \E sig \in SignalsFor(settings, buffer_data, all_data, s, date) :
                    /\ sig.signal_type \in {"BUY", "SELL"}
                    /\ PosOf(portfolio'.positions, s).quantity
                         = ProposedValue(settings, RiskState, s, sig.confidence,
                                         portfolio.total_value) \div sig.price

\* C24: a proposed position that violates a portfolio constraint (the
\* per-trade risk cap, the minimum cash reserve) is vetoed entirely; a
\* position is never opened at a size reduced to fit the constraint.
C24_NoPartialSizing == [][OpenedAtProposedSize]_vars

\* the runs of the batch that gather has been handed and that have not ended
InFlight ==
    IF pc = "g_gather"
    THEN Cardinality({j \in 1..Len(tasks) : batch_results[j] = Pending})
    ELSE 0

\* a batch is started only when no run of the batch before it is in flight
BatchAfterBatch ==
    (pc = "g_batch" /\ pc' = "g_gather") =>
        /\ \A j \in 1..Len(batch_results) : batch_results[j] # Pending
        /\ Len(outcomes) = Min(batch_i, Len(Combinations(parameter_ranges)))
        /\ Len(tasks') <= max_workers

\* C25: grid_search never has more than max_workers runs in flight at once
\* (max_workers defaulting to min(cpu count, 8)), and no run of batch k+1 is
\* started before every run of batch k has finished or failed.
C25_BoundedBatches ==
    /\ [](InFlight <= max_workers)
    /\ [](\A c \in CpuCounts :
            DefaultMaxWorkers(c) = IF c < 8 THEN c ELSE 8)
    /\ [][BatchAfterBatch]_vars

\* a full second batch is in flight after a first batch in which a run failed
C25_Witness ==
    /\ pc = "g_gather"
    /\ max_workers = 2
    /\ batch_i = 2
    /\ InFlight = 2
    /\ \E k \in 1..Len(outcomes) : outcomes[k].failed

\* the elite of the generation just bred stands first in the new population
\* with the values it was evaluated with
ElitesUnaltered ==
    (pc = "ga_breed" /\ pc' = "ga_eval" /\ Len(results) >= 2) =>
        \A i \in 1..Len(FirstK(results, EliteSize(ga_in.population_size))) :
            /\ population'[i] = results[i].ref
            /\ heap'[population'[i]] = results[i].evaluated

\* C26: in every generation the top elite_size = max(1, population_size //
\* 10) individuals by score are carried into the next population with
\* exactly the parameter values they were evaluated with: neither crossover
\* nor mutation alters an elite individual.
C26_ElitesUnaltered == [][ElitesUnaltered]_vars

\* the last n rows of the z_score column all fall under the rule r
LastRowsAll(zs, n, r(_)) ==
    /\ Len(zs) >= n
    /\ \A i \in (Len(zs) - n + 1)..Len(zs) : ~zs[i].nan /\ r(zs[i])

\* C28: a BUY (SELL) signal is emitted at a bar only if each of the last
\* confirmation_period bars, classified by the same threshold rule as the
\* current bar, is also BUY (SELL).
C28_ConfirmedBySameRule ==
    (pc = "confirm_done" /\ confirm_out \in {"BUY", "SELL"}) =>
        LastRowsAll(confirm_in.z_scores, confirm_in.confirmation_period,
                    LAMBDA z : Classify(z, confirm_in.z_score_threshold)
                                 = confirm_out)

\* C28, amended: the trailing bars are held to 0.8 times the threshold: a
\* BUY (SELL) signal is emitted only if the current bar is BUY (SELL) by the
\* threshold rule and each of the last confirmation_period bars has a
\* z-score below -0.8 (above 0.8) times the threshold.
C28_ConfirmedByLooserRule ==
    (pc = "confirm_done" /\ confirm_out \in {"BUY", "SELL"}) =>
        /\ Classify(confirm_in.z_scores[Len(confirm_in.z_scores)],
                    confirm_in.z_score_threshold) = confirm_out
        /\ LastRowsAll(confirm_in.z_scores, confirm_in.confirmation_period,
              LAMBDA z : IF confirm_out = "BUY"
                         THEN 10 * z.v < -(8 * confirm_in.z_score_threshold)
                         ELSE 10 * z.v > 8 * confirm_in.z_score_threshold)

\* a bar past the threshold after a bar between 0.8 times the threshold and
\* the threshold, with a confirmation period of two bars: BUY is emitted
C28_Witness ==
    /\ pc = "confirm_done"
    /\ confirm_in.confirmation_period = 2
    /\ confirm_in.z_scores = <<Z(-180), Z(-250)>>
    /\ confirm_out = "BUY"

\* the run ended in a blow-up: the extreme-value check replaced the final
\* balance and set the penalty factor
BlewUp == pc = "reported" /\ leverage_risk_factor = 10

\* C30: after a blow-up the reported final balance is the initial balance
\* scaled by the penalty factor, and the magnitude of the reported total
\* return does not exceed the blow-up multiple times the initial balance
C30_BlowUpReport ==
    BlewUp =>
        /\ metrics_out.final_balance = PerHundred(InitialBalance, 10)
        /\ Abs(metrics_out.total_return)
              <= InitialBalance * cfg.extreme_value_threshold

\* the first half alone
C30_BlowUpBalance ==
    BlewUp => metrics_out.final_balance = PerHundred(InitialBalance, 10)


\* the individuals of the population whose run yields a result
ValidIndividuals ==
    {i \in 1..Len(population) : ~eval_table[heap[population[i]]].failed}

\* the evaluation of a generation appends to best_results the
\* min(5, number of valid results) results of the highest scores
GenerationStored ==
    (pc = "ga_eval" /\ pc' = "ga_breed") =>
        LET k == Min(5, Cardinality(ValidIndividuals))
            added == SubSeq(best_results', Len(best_results) + 1,
                            Len(best_results'))
        IN /\ Len(best_results') = Len(best_results) + k
           /\ SubSeq(best_results', 1, Len(best_results)) = best_results
           /\ \A j \in 1..Len(added) :
                 \E i \in ValidIndividuals :
                    /\ added[j].ref = population[i]
                    /\ added[j].score = eval_table[heap[population[i]]].score
           /\ \A j1, j2 \in 1..Len(added) :
                 j1 # j2 => added[j1].ref # added[j2].ref
           /\ \A o \in GaOutcomes :
                 Cardinality({j \in 1..Len(added) : added[j].score >= o.score})
                   = Min(k, Cardinality({i \in ValidIndividuals :
                               eval_table[heap[population[i]]].score >= o.score}))

\* what the search returns: at most 20 entries, each taken from best_results,
\* in non-increasing order of score
SearchReturned ==
    (pc # "ga_done" /\ pc' = "ga_done") =>
        /\ Len(ga_out') <= 20
        /\ \A j \in 1..(Len(ga_out') - 1) :
              ga_out'[j].score >= ga_out'[j + 1].score
        /\ \A j \in 1..Len(ga_out') :
              Cardinality({m \in 1..Len(ga_out') : ga_out'[m] = ga_out'[j]})
                <= Cardinality({m \in 1..Len(best_results) :
                                  best_results[m] = ga_out'[j]})

\* C27: genetic_optimization adds to its best-ever list exactly the
\* min(5, number of valid results) top-scoring results of every generation,
\* and returns at most 20 entries of that list in non-increasing score order
C27_BestOfEachGeneration == [][GenerationStored /\ SearchReturned]_vars

\* a search that ended with more than 20 best-ever results, 20 of them returned
C27_Witness ==
    /\ pc = "ga_done"
    /\ Len(best_results) > 20
    /\ Len(ga_out) = 20


\* C29: in the result list a search returns, among results of equal score
\* the one with the lower max drawdown is ranked first
C29_TiesByDrawdown ==
    pc = "ga_done" =>
        \A j, m \in 1..Len(ga_out) :
            (j < m /\ ga_out[j].score = ga_out[m].score)
                => ga_out[j].max_drawdown <= ga_out[m].max_drawdown

LoopPcs == {"update", "signals", "record", "e_update", "e_signals", "e_record"}

\* the timestamps of the union of the symbols' bars
UnionDates ==
    {t \in 1..Len(all_data[SymOrder[1]]) :
        \E s \in Symbols : HasBar(all_data, s, t)}

PointDate(pt) == IF "date" \in DOMAIN pt THEN pt.date ELSE pt.timestamp

\* the equity points are those of the timestamps processed so far, one each,
\* in strictly increasing order, and the timestamp in process is one of the
\* union that has no point yet
TimelineInOrder ==
    /\ \A i, j \in 1..Len(equity_curve) :
          i < j => PointDate(equity_curve[i]) < PointDate(equity_curve[j])
    /\ pc \in LoopPcs \ {"record", "e_record"} =>
          /\ date \in UnionDates
          /\ {PointDate(equity_curve[i]) : i \in 1..Len(equity_curve)}
               = {t \in UnionDates : t < date}
    /\ pc \in {"closing", "done", "e_done"} =>
          {PointDate(equity_curve[i]) : i \in 1..Len(equity_curve)} = UnionDates

\* the equity point of a timestamp is appended by the last step of its bar
OnePointPerBar ==
    IF pc \in {"record", "e_record"}
    THEN /\ Len(equity_curve') = Len(equity_curve) + 1
         /\ PointDate(equity_curve'[Len(equity_curve')]) = date
         /\ SubSeq(equity_curve', 1, Len(equity_curve)) = equity_curve
    ELSE pc \in LoopPcs => equity_curve' = equity_curve

\* a symbol without a bar at the timestamp keeps its position as it is and
\* gets no trade
SkippedSymbolUntouched ==
    pc \in LoopPcs =>
        \A s \in Symbols :
            ~HasBar(all_data, s, date) =>
                /\ {p \in positions' : p.symbol = s}
                     = {p \in positions : p.symbol = s}
                /\ {p \in portfolio'.positions : p.symbol = s}
                     = {p \in portfolio.positions : p.symbol = s}
                /\ TradeCount(trades', s) = TradeCount(trades, s)
                /\ TradeCount(trade_history', s) = TradeCount(trade_history, s)

\* C31: a run processes each distinct timestamp of the union of all symbols'
\* bars exactly once, in strictly increasing order, and appends exactly one
\* EquityPoint per processed timestamp; at a timestamp where a symbol has no
\* bar, that symbol's position is neither re-priced, exited nor entered
C31_Timeline ==
    []TimelineInOrder /\ [][OnePointPerBar /\ SkippedSymbolUntouched]_vars

\* a run is over that has one equity point per timestamp of the union, and
\* in which a symbol held a position through a timestamp at which only
\* another symbol had a bar
C31_Witness ==
    /\ pc \in {"closing", "e_done"}
    /\ Len(equity_curve) = Cardinality(UnionDates)
    /\ \E p \in positions \cup portfolio.positions :
          \E t \in UnionDates :
             EntryAt(p) < t /\ ~HasBar(all_data, p.symbol, t)

\* the entry step of a bar gives a new position the close of its own symbol
\* at the bar, and a quantity computed from that close
EntryAtOwnClose ==
    pc = "signals" =>
        \A p \in positions' \ positions :
            /\ p.entry_price = all_data[p.symbol][date]
            /\ p.quantity = EntryQuantity(LoopSettings(cfg, settings),
                                          portfolio_value, current_leverage,
                                          all_data[p.symbol][date])

\* C32: in the simulation loops with two or more symbols, a position opened
\* for a symbol at a bar has entry_price equal to that symbol's own close at
\* the bar, and its quantity is computed from that same price, never from
\* the close of another symbol processed earlier in the bar
C32_EntryAtOwnClose == [][EntryAtOwnClose]_vars

\* C33: the final balance computed at the end of a run, before any penalty
\* factor is applied, equals the initial balance plus the sum of pnl over all
\* trades of the trade log; the pnl of a position force-closed at the end of
\* the run is counted exactly once
C33_FinalBalanceIsSumOfTrades ==
    (pc = "done" /\ leverage_risk_factor # 10) =>
        final_balance = InitialBalance + SumSeq(TradePnls(trades))

\* the stop-loss and the take-profit side of the exit rule
StopLossHit(S, position, price) ==
    IF position.type = "BUY"
    THEN price * 100 <= position.entry_price * (100 - S.stop_loss_pct)
    ELSE price * 100 >= position.entry_price * (100 + S.stop_loss_pct)

TakeProfitHit(S, position, price) ==
    IF position.type = "BUY"
    THEN price * 100 >= position.entry_price * (100 + S.take_profit_pct)
    ELSE price * 100 <= position.entry_price * (100 - S.take_profit_pct)

\* the symbols whose position the price-update step of the bar closes
ExitedNow == {s \in Symbols : HasPos(positions, s) /\ ~HasPos(positions', s)}

\* the trade the step appends for symbol s
NewTradeOf(s) ==
    trades'[CHOOSE k \in (Len(trades) + 1)..Len(trades') :
               trades'[k].symbol = s]

\* the sign of the pnl of an exit, and the streak after stop-loss exits
ExitPnlSign ==
    pc = "update" =>
        LET S == LoopSettings(cfg, settings)
        IN /\ \A s \in ExitedNow :
                 /\ StopLossHit(S, PosOf(positions, s), all_data[s][date])
                       => NewTradeOf(s).pnl <= 0
                 /\ TakeProfitHit(S, PosOf(positions, s), all_data[s][date])
                       => NewTradeOf(s).pnl >= 0
           /\ (/\ ExitedNow # {}
               /\ \A s \in ExitedNow :
                     StopLossHit(S, PosOf(positions, s), all_data[s][date]))
                 => /\ winning_streak' <= winning_streak
                    /\ current_leverage' <= current_leverage

\* C34: in the single-test and prop-firm simulation loops, a Trade produced
\* by a stop-loss exit has pnl <= 0 and a Trade produced by a take-profit exit
\* has pnl >= 0, for SELL positions as well as BUY positions; a stop-loss exit
\* therefore never increments the winning streak or raises leverage
C34_ExitPnlSign == [][ExitPnlSign]_vars

\* C35: for RiskManager, opening a position with add_position and later
\* closing it with close_position changes cash by exactly the Trade's
\* realized pnl, for long and short positions alike; so whenever no position
\* is open, cash equals the initial capital plus the sum of realized pnl over
\* trade_history
C35_CashIsRealizedPnl ==
    (pc \in EnginePcs /\ portfolio.positions = {}) =>
        portfolio.cash = InitialBalance + SumSeq(TradePnls(trade_history))

\* a task whose parameters name a key that is no strategy field leaves the
\* settings as they were
RaisingUpdateKeepsSettings ==
    (pc = "g_gather" /\ outcomes' # outcomes) =>
        LET P == tasks[NextTask]
        IN (\E i \in 1..Len(P) : P[i].name \notin StrategyFields)
              => settings' = settings

\* C36: if update_strategy_params(P) raises because P contains a key that is
\* not a strategy field, no strategy setting has been changed: the update is
\* all-or-nothing, whatever the position of the unknown key in P
C36_UpdateAllOrNothing == [][RaisingUpdateKeepsSettings]_vars

\* C37: the parameters stored in an OptimizationResult kept in the genetic
\* search's best-results list, and in any returned result, stay equal to the
\* parameter values the run that produced its metrics was executed with,
\* whatever selection, crossover, mutation or later generations do afterwards
C37_ResultParametersStay ==
    /\ \A i \in 1..Len(best_results) :
          heap[best_results[i].ref] = best_results[i].evaluated
    /\ \A i \in 1..Len(ga_out) : heap[ga_out[i].ref] = ga_out[i].evaluated

\* C38: if at least one individual of some generation evaluated successfully,
\* genetic_optimization returns a non-empty list containing the best results
\* collected so far: a generation with fewer than three valid results neither
\* aborts the search nor discards the results of earlier generations
C38_ResultsSurvive ==
    (pc = "ga_done" /\ best_results # <<>>) =>
        /\ ga_out # <<>>
        /\ \A i \in 1..Len(ga_out) :
              \E j \in 1..Len(best_results) : ga_out[i] = best_results[j]

\* C39: fetch_historical_data serves a cached frame only to a request with
\* the same symbol, period, interval and start/end date range as the request
\* that populated the cache entry: whatever a call returns is the frame of
\* its own arguments, never the bars of another date range
C39_CacheByRange ==
    fetches > 0 => dm_out.data = History(dm_out.request)

\* C40: after grid_search, walk_forward_optimization or genetic_optimization
\* returns, the process-wide strategy settings equal their values before the
\* search started; a search does not leave the settings at the last-evaluated
\* parameter set
C40_SettingsRestored ==
    pc \in {"g_done", "w_done", "ga_done"} => settings = DefaultSettings

====
